---- MODULE Spec2Model ----
(***************************************************************************)
(* Link resolution engine of enex2notion: the resumable queue              *)
(* (unfinished.json / completed.json), the per-page pipeline of            *)
(* process_page (normalize, scan, match, rewrite, queue update) and the    *)
(* text splitting / packing helpers of link_resolver.py.                   *)
(*                                                                         *)
(* Text is kept character-exact but run-length compressed: a string is a   *)
(* sequence of atoms [t, n, c] where t is the character class, n the       *)
(* number of characters the atom stands for and c the letter or url id.    *)
(*   "w"    n ordinary non-space characters (lower-case filler)            *)
(*   "c"    one letter c (case matters: "a" / "A")                         *)
(*   "sp"   one space            "nb"   one no-break space U+00A0          *)
(*   "lb" "rb" "lp" "rp"   the characters [ ] ( )                          *)
(*   "url"  n characters of a url that starts with "evernote" (id c)       *)
(*   "stop" the marker sign      "kw"   the word "unresolved:"             *)
(* Sequence indexes are 1-based here; rich_text_index of the source is     *)
(* 0-based, so index i of the model is index i-1 of the source.            *)
(***************************************************************************)
EXTENDS Integers, Sequences, FiniteSets, TLC

\* ------------------------------------------------------------------ limits
MAX_RICH_TEXT_LENGTH == 2000
SAFE_CHAR_PER_BLOCK == 1800
SAFE_ELEMS_PER_BLOCK == 80
MAX_RICH_TEXT_ELEMS == 100
EVERNOTE_PREFIX_LEN == 8
UNRESOLVED_WORD_LEN == 11

\* ------------------------------------------------------------------ atoms
W(n) == [t |-> "w", n |-> n, c |-> ""]
Ch(c) == [t |-> "c", n |-> 1, c |-> c]
SP == [t |-> "sp", n |-> 1, c |-> ""]
NB == [t |-> "nb", n |-> 1, c |-> ""]
LB == [t |-> "lb", n |-> 1, c |-> ""]
RB == [t |-> "rb", n |-> 1, c |-> ""]
LP == [t |-> "lp", n |-> 1, c |-> ""]
RP == [t |-> "rp", n |-> 1, c |-> ""]
Url(u, n) == [t |-> "url", n |-> n, c |-> u]
STOP == [t |-> "stop", n |-> 1, c |-> ""]
KW == [t |-> "kw", n |-> UNRESOLVED_WORD_LEN, c |-> ""]

\* len(s)
RECURSIVE StrLen(_)
StrLen(s) ==
    IF s = <<>> THEN 0
    ELSE IF Len(s) = 1 THEN s[1].n
    ELSE LET m == Len(s) \div 2
         IN StrLen(SubSeq(s, 1, m)) + StrLen(SubSeq(s, m + 1, Len(s)))

\* The first k characters of one atom / what is left of it after k characters.
\* A url cut short still starts with "evernote" when at least that much is
\* left; every other cut piece is ordinary text.
AtomHead(a, k) ==
    IF a.t = "url" /\ k >= EVERNOTE_PREFIX_LEN THEN [a EXCEPT !.n = k] ELSE W(k)
AtomRest(a, k) == W(a.n - k)

\* s[:k]
RECURSIVE TakeChars(_, _)
TakeChars(s, k) ==
    IF k <= 0 \/ s = <<>> THEN <<>>
    ELSE IF Head(s).n <= k THEN <<Head(s)>> \o TakeChars(Tail(s), k - Head(s).n)
    ELSE <<AtomHead(Head(s), k)>>

\* s[k:]
RECURSIVE DropChars(_, _)
DropChars(s, k) ==
    IF s = <<>> THEN <<>>
    ELSE IF k <= 0 THEN s
    ELSE IF Head(s).n <= k THEN DropChars(Tail(s), k - Head(s).n)
    ELSE <<AtomRest(Head(s), k)>> \o Tail(s)

\* The least / greatest element of a set of positions, 0 for the empty set.
Min0(S) == IF S = {} THEN 0 ELSE CHOOSE x \in S : \A y \in S : x <= y
Max0(S) == IF S = {} THEN 0 ELSE CHOOSE x \in S : \A y \in S : x >= y

\* The k-th position, in increasing order, of a set of positions.
KthOf(keep, k) == CHOOSE p \in keep : Cardinality({q \in keep : q < p}) = k - 1

\* Position of the k-th space among the space positions `spaces` of a text
\* of n atoms: 0 before the first, n + 1 after the last.
SpaceAt(spaces, n, k) ==
    IF k = 0 THEN 0
    ELSE IF k > Cardinality(spaces) THEN n + 1
    ELSE CHOOSE p \in spaces : Cardinality({q \in spaces : q < p}) = k - 1

WordsBetween(s, spaces) ==
    [k \in 1..(Cardinality(spaces) + 1) |->
        SubSeq(s, SpaceAt(spaces, Len(s), k - 1) + 1, SpaceAt(spaces, Len(s), k) - 1)]

\* s.split(" "): the words between single spaces, empty words kept.
SplitSpace(s) == WordsBetween(s, {i \in 1..Len(s) : s[i].t = "sp"})

\* ------------------------------------------------- _split_text_if_needed
\* current_chunk + (" " if current_chunk else "") + word
TestChunk(current_chunk, word) ==
    IF current_chunk # <<>> THEN current_chunk \o <<SP>> \o word ELSE word

\* One pass of the loop over words of _split_text_if_needed; st is
\* [chunks, current_chunk, i], i the position of the word in words.
SplitWord(st, word, test_chunk) ==
    IF StrLen(test_chunk) > MAX_RICH_TEXT_LENGTH
    THEN IF st.current_chunk # <<>>
         THEN [chunks |-> Append(st.chunks, st.current_chunk), current_chunk |-> word,
               i |-> st.i + 1]
         ELSE [chunks |-> Append(st.chunks, TakeChars(word, MAX_RICH_TEXT_LENGTH)),
               current_chunk |-> DropChars(word, MAX_RICH_TEXT_LENGTH), i |-> st.i + 1]
    ELSE [chunks |-> st.chunks, current_chunk |-> test_chunk, i |-> st.i + 1]

\* The loop over the words st.i .. last, from the state st: up to the
\* middle of the range first, then on from the state that leaves.
RECURSIVE SplitWords(_, _, _)
SplitWords(words, st, last) ==
    IF st.i > last THEN st
    ELSE IF st.i = last
    THEN SplitWord(st, words[st.i], TestChunk(st.current_chunk, words[st.i]))
    ELSE SplitWords(words, SplitWords(words, st, (st.i + last) \div 2), last)

\* if current_chunk: chunks.append(current_chunk)
LastChunk(st) ==
    IF st.current_chunk # <<>> THEN Append(st.chunks, st.current_chunk) ELSE st.chunks

AllWords(words) ==
    LastChunk(SplitWords(words, [chunks |-> <<>>, current_chunk |-> <<>>, i |-> 1],
                         Len(words)))

\* The contents of the text elements _split_text_if_needed returns.
SplitTextIfNeeded(content) ==
    IF StrLen(content) <= MAX_RICH_TEXT_LENGTH THEN <<content>>
    ELSE AllWords(SplitSpace(content))

\* ------------------------------------------------------ the link pattern
\* \[([^\]]*)\]\((evernote[a-zA-Z0-9\-._~:/?#\[\]@!$&'()*+,;=%]*)\)
\* Characters of the url class: everything of the model except white space
\* and the marker sign.
IsUrlChar(a) == a.t \notin {"sp", "nb", "stop"}

NoMatch == [ok |-> FALSE, name |-> <<>>, url |-> <<>>, start |-> 0, end |-> 0]

\* The first "]" after position i: where the name of a link at i ends.
NameEnd(s, i) == Min0({j \in (i + 1)..Len(s) : s[j].t = "rb"})

\* The last position of the run of url characters that starts at k, given
\* the first position `stop` at or after k that is no url character (0: none).
RunEnd(s, stop) == IF stop = 0 THEN Len(s) ELSE stop - 1

\* The ")" that ends the link whose name ends at j: the url extends
\* greedily over url characters and backtracks to the last ")" it passed.
LinkEnd(s, j) ==
    Max0({k \in (j + 3)..RunEnd(s, Min0({x \in (j + 2)..Len(s) : ~IsUrlChar(s[x])})) :
            s[k].t = "rp"})

\* "[" at i, "]" at j, then "(" and a url that starts with "evernote".
LinkHead(s, i, j) ==
    /\ i <= Len(s)
    /\ s[i].t = "lb"
    /\ j # 0
    /\ j + 3 <= Len(s)
    /\ s[j + 1].t = "lp"
    /\ s[j + 2].t = "url"
    /\ s[j + 2].n >= EVERNOTE_PREFIX_LEN

LinkMatch(s, i, j, e) ==
    IF LinkHead(s, i, j) /\ e # 0
    THEN [ok |-> TRUE, name |-> SubSeq(s, i + 1, j - 1),
          url |-> SubSeq(s, j + 2, e - 1), start |-> i, end |-> e]
    ELSE NoMatch

LinkFrom(s, i, j) == LinkMatch(s, i, j, LinkEnd(s, j))

\* The match of the pattern that starts at position i of s, as
\* [ok, name, url, start, end].
LinkAt(s, i) == LinkFrom(s, i, NameEnd(s, i))

LinkAtOrNone(s, i) == IF i = 0 THEN NoMatch ELSE LinkAt(s, i)

\* re.search(pattern, s[from:]): the leftmost match at or after position from.
SearchLink(s, from) == LinkAtOrNone(s, Min0({i \in from..Len(s) : LinkAt(s, i).ok}))

\* re.finditer(pattern, s): all non-overlapping matches, left to right.
RECURSIVE FindLinksFrom(_, _)
RECURSIVE FindLinksAfter(_, _, _)
FindLinksAfter(s, from, m) ==
    IF from > Len(s) \/ ~m.ok THEN <<>>
    ELSE <<m>> \o FindLinksFrom(s, m.end + 1)
FindLinksFrom(s, from) == FindLinksAfter(s, from, SearchLink(s, from))

FindLinks(s) == FindLinksFrom(s, 1)

\* ------------------------------------------------------ rich_text elements
\* A rich_text element: a text element (content, href of its hyperlink or
\* <<>>, annotations) or a page mention.
\* _make_text: plain text, link None.
MakeText(content, annotations) ==
    [type |-> "text", content |-> content, href |-> <<>>,
     ann |-> annotations, page |-> ""]

\* _make_inline_link: a page mention of target_page_id.
MakeInlineLink(target_page_id, annotations) ==
    [type |-> "mention", content |-> <<>>, href |-> <<>>,
     ann |-> annotations, page |-> target_page_id]

\* [_make_text(chunk, annotations) for chunk in chunks]
MakeTexts(chunks, annotations) ==
    [i \in 1..Len(chunks) |-> MakeText(chunks[i], annotations)]

SplitToElements(content, annotations) == MakeTexts(SplitTextIfNeeded(content), annotations)

\* Concatenation of a sequence of sequences.
RECURSIVE Flatten(_)
Flatten(ss) ==
    IF ss = <<>> THEN <<>>
    ELSE IF Len(ss) = 1 THEN ss[1]
    ELSE Flatten(SubSeq(ss, 1, Len(ss) \div 2))
         \o Flatten(SubSeq(ss, Len(ss) \div 2 + 1, Len(ss)))

\* _split_all_oversized_elements, one element: an over-long text element
\* without a link is split, everything else is kept.
SplitOversizedElement(item) ==
    IF item.type # "text" THEN <<item>>
    ELSE IF StrLen(item.content) <= MAX_RICH_TEXT_LENGTH THEN <<item>>
    ELSE IF item.href # <<>> THEN <<item>>
    ELSE SplitToElements(item.content, item.ann)

\* _split_all_oversized_elements
SplitAllOversizedElements(rich_text_array) ==
    Flatten([i \in 1..Len(rich_text_array) |-> SplitOversizedElement(rich_text_array[i])])

\* ------------------------------------------------- tokenize / pack / build
TextToken(content, annotations, is_link) ==
    [type |-> "text", content |-> content, ann |-> annotations,
     is_link |-> is_link, item |-> MakeText(<<>>, "")]
OtherToken(item) ==
    [type |-> "other", content |-> <<>>, ann |-> "", is_link |-> FALSE, item |-> item]

\* The tokens of one text: the text between the links and the links.
RECURSIVE TokenizeText(_, _, _, _)
TokenizeText(text, annotations, matches, pos) ==
    IF matches = <<>>
    THEN IF pos <= Len(text)
         THEN <<TextToken(SubSeq(text, pos, Len(text)), annotations, FALSE)>>
         ELSE <<>>
    ELSE (IF Head(matches).start > pos
          THEN <<TextToken(SubSeq(text, pos, Head(matches).start - 1), annotations, FALSE)>>
          ELSE <<>>)
         \o <<TextToken(SubSeq(text, Head(matches).start, Head(matches).end),
                        annotations, TRUE)>>
         \o TokenizeText(text, annotations, Tail(matches), Head(matches).end + 1)

TokenizeItem(item) ==
    IF item.type # "text" THEN <<OtherToken(item)>>
    ELSE TokenizeText(item.content, item.ann, FindLinks(item.content), 1)

\* _tokenize_rich_text_items
TokenizeRichTextItems(rich_text_array) ==
    Flatten([i \in 1..Len(rich_text_array) |-> TokenizeItem(rich_text_array[i])])

\* len(tok["content"]) for a text token, 0 for any other
TokenLen(tok) == IF tok.type = "text" THEN StrLen(tok.content) ELSE 0

\* _pack_tokens_into_chunks, the loop: chunks, cur, cur_chars, cur_elems.
RECURSIVE PackLoop(_, _, _, _, _, _, _)
RECURSIVE PackToken(_, _, _, _, _, _, _, _, _)
PackToken(tokens, chunks, cur, cur_chars, cur_elems, char_limit, elem_limit, tok, text_len) ==
    IF tok.is_link /\ text_len > char_limit
    THEN PackLoop(Tail(tokens),
                  Append(IF cur # <<>> THEN Append(chunks, cur) ELSE chunks, <<tok>>),
                  <<>>, 0, 0, char_limit, elem_limit)
    ELSE IF cur # <<>> /\ (cur_chars + text_len > char_limit \/ cur_elems + 1 > elem_limit)
    THEN PackLoop(Tail(tokens), Append(chunks, cur), <<tok>>, text_len, 1,
                  char_limit, elem_limit)
    ELSE PackLoop(Tail(tokens), chunks, Append(cur, tok),
                  cur_chars + text_len, cur_elems + 1, char_limit, elem_limit)

PackLoop(tokens, chunks, cur, cur_chars, cur_elems, char_limit, elem_limit) ==
    IF tokens = <<>>
    THEN IF cur # <<>> THEN Append(chunks, cur) ELSE chunks
    ELSE PackToken(tokens, chunks, cur, cur_chars, cur_elems, char_limit, elem_limit,
                   Head(tokens), TokenLen(Head(tokens)))

PackTokensIntoChunks(tokens) ==
    PackLoop(tokens, <<>>, <<>>, 0, 0, SAFE_CHAR_PER_BLOCK, SAFE_ELEMS_PER_BLOCK)

\* Whether a text of the given annotations joins the last element of elems.
JoinsLast(elems, content, annotations) ==
    /\ elems # <<>>
    /\ elems[Len(elems)].type = "text"
    /\ elems[Len(elems)].ann = annotations
    /\ StrLen(elems[Len(elems)].content) + StrLen(content) <= MAX_RICH_TEXT_LENGTH

\* _build_rich_text_from_tokens: adjacent text of equal annotations is joined
\* while the joined text stays within the limit.
RECURSIVE BuildLoop(_, _)
BuildLoop(tokens, elems) ==
    IF tokens = <<>> THEN elems
    ELSE IF Head(tokens).type = "other"
    THEN BuildLoop(Tail(tokens), Append(elems, Head(tokens).item))
    ELSE IF JoinsLast(elems, Head(tokens).content, Head(tokens).ann)
    THEN BuildLoop(Tail(tokens),
                   [elems EXCEPT ![Len(elems)].content = @ \o Head(tokens).content])
    ELSE BuildLoop(Tail(tokens),
                   Append(elems, MakeText(Head(tokens).content, Head(tokens).ann)))

BuildRichTextFromTokens(tokens) == BuildLoop(tokens, <<>>)

\* ------------------------------------------------------------ blocks
\* A block: [id, type, rich_text].  The id of a block is its position among
\* the blocks of its page: blocks are only ever appended at the end.
RICH_TEXT_BLOCK_TYPES ==
    {"paragraph", "heading_1", "heading_2", "heading_3", "bulleted_list_item",
     "numbered_list_item", "to_do", "quote", "callout", "toggle"}

Block(id, type, rich_text) == [id |-> id, type |-> type, rich_text |-> rich_text]

\* sum(len(content) for the text elements of rt)
RECURSIVE TotalChars(_)
TotalChars(rt) ==
    IF rt = <<>> THEN 0
    ELSE IF Len(rt) = 1
         THEN (IF rt[1].type = "text" THEN StrLen(rt[1].content) ELSE 0)
    ELSE TotalChars(SubSeq(rt, 1, Len(rt) \div 2))
         + TotalChars(SubSeq(rt, Len(rt) \div 2 + 1, Len(rt)))

\* needs_normalization without its three size tests: every block with text
\* needs normalization.
NeedsNormalizationAlways(block) ==
    /\ block.type \in RICH_TEXT_BLOCK_TYPES
    /\ block.rich_text # <<>>

\* needs_normalization
NeedsNormalization(block) ==
    /\ block.type \in RICH_TEXT_BLOCK_TYPES
    /\ block.rich_text # <<>>
    /\ \/ \E i \in 1..Len(block.rich_text) :
            /\ block.rich_text[i].type = "text"
            /\ StrLen(block.rich_text[i].content) > MAX_RICH_TEXT_LENGTH
       \/ Len(block.rich_text) > SAFE_ELEMS_PER_BLOCK
       \/ TotalChars(block.rich_text) > SAFE_CHAR_PER_BLOCK

\* The rich_text written for one chunk: built, then over-long elements split.
ChunkRichText(chunk) == SplitAllOversizedElements(BuildRichTextFromTokens(chunk))

\* A call of the content API: [op, blk, rich_text].
ApiCall(op, blk, rich_text) == [op |-> op, blk |-> blk, rich_text |-> rich_text]

\* The blocks appended for the chunks after the first, given the rich_text
\* of every chunk: new blocks of the same type at the end of the parent.
NewChildren(page, block, rts) ==
    [k \in 1..(Len(rts) - 1) |-> Block(Len(page) + k, block.type, rts[k + 1])]

AppendCalls(new_children) ==
    [k \in 1..Len(new_children) |->
        ApiCall("append", new_children[k].id, new_children[k].rich_text)]

\* normalize_block_to_safe_chunks once the rich_text of every chunk is
\* known: rts[1] replaces the block, the others are appended.
WriteChunks(page, block, fails, rts, new_children) ==
    IF [op |-> "update", blk |-> block.id] \in fails
    THEN [page |-> page, calls |-> <<ApiCall("update", block.id, rts[1])>>, raised |-> TRUE]
    ELSE IF Len(rts) = 1
    THEN [page |-> [page EXCEPT ![block.id].rich_text = rts[1]],
          calls |-> <<ApiCall("update", block.id, rts[1])>>, raised |-> FALSE]
    ELSE IF [op |-> "append", blk |-> 0] \in fails
    THEN [page |-> [page EXCEPT ![block.id].rich_text = rts[1]],
          calls |-> <<ApiCall("update", block.id, rts[1])>> \o AppendCalls(new_children),
          raised |-> TRUE]
    ELSE [page |-> [page EXCEPT ![block.id].rich_text = rts[1]] \o new_children,
          calls |-> <<ApiCall("update", block.id, rts[1])>> \o AppendCalls(new_children),
          raised |-> FALSE]

WriteChunkTexts(page, block, fails, rts) ==
    WriteChunks(page, block, fails, rts, NewChildren(page, block, rts))

NormalizeChunks(page, block, fails, chunks) ==
    IF chunks = <<>> \/ (Len(chunks) = 1 /\ ~NeedsNormalization(block))
    THEN [page |-> page, calls |-> <<>>, raised |-> FALSE]
    ELSE WriteChunkTexts(page, block, fails,
                         [k \in 1..Len(chunks) |-> ChunkRichText(chunks[k])])

\* normalize_block_to_safe_chunks on the blocks `page` of one page (the
\* parent of `block`); fails is the set of [op, blk] that raise.  The result
\* is [page, calls, raised]: the blocks afterwards, the calls made in order
\* and whether a call raised.
NormalizeBlockToSafeChunks(page, block, fails) ==
    NormalizeChunks(page, block, fails,
                    PackTokensIntoChunks(TokenizeRichTextItems(block.rich_text)))

\* normalize_page_blocks: the blocks are fetched once; every fetched block
\* that needs it is normalized, in order.  A failure of the fetch is logged
\* and nothing is normalized.
RECURSIVE NormalizeLoop(_, _, _)
RECURSIVE NormalizeNext(_, _, _, _)
NormalizeNext(queue, acc, fails, r) ==
    NormalizeLoop(Tail(queue),
                  [page |-> r.page, calls |-> acc.calls \o r.calls,
                   raised |-> acc.raised \/ r.raised],
                  fails)
NormalizeLoop(queue, acc, fails) ==
    IF queue = <<>> THEN acc
    ELSE NormalizeNext(queue, acc, fails,
            IF NeedsNormalization(Head(queue))
            THEN NormalizeBlockToSafeChunks(acc.page, Head(queue), fails)
            ELSE [page |-> acc.page, calls |-> <<>>, raised |-> FALSE])

NormalizePageBlocks(page, fails) ==
    IF [op |-> "tree", blk |-> 0] \in fails
    THEN [page |-> page, calls |-> <<>>, raised |-> TRUE]
    ELSE NormalizeLoop(page, [page |-> page, calls |-> <<>>, raised |-> FALSE], fails)


\* ------------------------------------------------------------ scanning
\* A LinkReference: [block_id, link_text, original_url, rich_text_index,
\* pass_type].
LinkReference(block_id, link_text, original_url, rich_text_index, pass_type) ==
    [block_id |-> block_id, link_text |-> link_text, original_url |-> original_url,
     rich_text_index |-> rich_text_index, pass_type |-> pass_type]

\* EVERNOTE_URL_PATTERN.match(href): the href starts with "evernote".
IsEvernoteHref(href) ==
    href # <<>> /\ href[1].t = "url" /\ href[1].n >= EVERNOTE_PREFIX_LEN

\* Pass 1: one reference for each markdown link of the element.
MarkdownRefs(block_id, idx, markdown_matches) ==
    [k \in 1..Len(markdown_matches) |->
        LinkReference(block_id, markdown_matches[k].name, markdown_matches[k].url,
                      idx, "markdown")]

\* Pass 2, only when pass 1 found nothing: the element itself when its href
\* is an evernote url.
ScanMatches(block_id, idx, item, markdown_matches) ==
    IF markdown_matches # <<>> THEN MarkdownRefs(block_id, idx, markdown_matches)
    ELSE IF IsEvernoteHref(item.href)
    THEN <<LinkReference(block_id, item.content, item.href, idx, "href")>>
    ELSE <<>>

\* The references of one rich_text element of _scan_block_for_links.
ScanElement(block_id, idx, item) ==
    IF item.type # "text" THEN <<>>
    ELSE ScanMatches(block_id, idx, item, FindLinks(item.content))

\* _scan_block_for_links
ScanBlockForLinks(block) ==
    IF block.type \notin RICH_TEXT_BLOCK_TYPES \/ block.rich_text = <<>> THEN <<>>
    ELSE Flatten([idx \in 1..Len(block.rich_text) |->
                    ScanElement(block.id, idx, block.rich_text[idx])])

\* find_evernote_links_in_page
FindEvernoteLinksInPage(blocks) ==
    Flatten([b \in 1..Len(blocks) |-> ScanBlockForLinks(blocks[b])])

\* ------------------------------------------------------------ matching
LowerLetter(c) == IF c = "A" THEN "a" ELSE IF c = "B" THEN "b" ELSE c

\* s.casefold() and s.lower(): the letters of the model fold to lower case.
CaseFold(s) == [i \in 1..Len(s) |-> IF s[i].t = "c" THEN Ch(LowerLetter(s[i].c)) ELSE s[i]]
Lower(s) == [i \in 1..Len(s) |-> IF s[i].t = "c" THEN Ch(LowerLetter(s[i].c)) ELSE s[i]]

\* The elements of s at the positions that satisfy keep, in order.
RECURSIVE KeepPositions(_, _, _)
KeepPositions(s, keep, i) ==
    IF i > Len(s) THEN <<>>
    ELSE (IF i \in keep THEN <<s[i]>> ELSE <<>>) \o KeepPositions(s, keep, i + 1)

\* s.replace(" ", " ")
NbToSpace(s) == [i \in 1..Len(s) |-> IF s[i].t = "nb" THEN SP ELSE s[i]]

\* " ".join(t.split()): the positions that stay are those of the words and
\* of the first space of every run of spaces between two words.
JoinedPositions(t) ==
    {i \in 1..Len(t) :
        \/ t[i].t # "sp"
        \/ /\ i > 1
           /\ t[i - 1].t # "sp"
           /\ \E k \in (i + 1)..Len(t) : t[k].t # "sp"}

CollapseSpaces(t) == KeepPositions(t, JoinedPositions(t), 1)

\* _norm: no-break spaces become spaces, runs of white space collapse to
\* one space, leading and trailing white space goes, then casefold.
Norm(s) == IF s = <<>> THEN <<>> ELSE CaseFold(CollapseSpaces(NbToSpace(s)))

\* title_to_ids_ci.get(key, []): the (id, title) entries of the registry
\* whose normalized title is key, in registry order.
Candidates(id_to_title, key) ==
    SelectSeq(id_to_title, LAMBDA e : Norm(e.title) = key)

\* The loop over link_refs with a first candidate taken whenever there is
\* one: no reference is ambiguous.
ClassifyFirst(ref, candidates, valid) ==
    IF Len(candidates) >= 1
    THEN [ref |-> ref,
          cls |-> IF candidates[1].id \in valid THEN "matched" ELSE "invalid",
          target |-> candidates[1].id, candidates |-> candidates]
    ELSE [ref |-> ref, cls |-> "unmatched", target |-> "", candidates |-> candidates]

\* The class of a reference with the given candidates: [ref, cls, target,
\* candidates] with cls one of "matched", "invalid" (one candidate,
\* validation failed), "ambig", "unmatched".
Classify(ref, candidates, valid) ==
    IF Len(candidates) = 1
    THEN [ref |-> ref,
          cls |-> IF candidates[1].id \in valid THEN "matched" ELSE "invalid",
          target |-> candidates[1].id, candidates |-> candidates]
    ELSE IF Len(candidates) > 1
    THEN [ref |-> ref, cls |-> "ambig", target |-> "", candidates |-> candidates]
    ELSE [ref |-> ref, cls |-> "unmatched", target |-> "", candidates |-> candidates]

\* One reference matched against the registry (process_page, the loop over
\* link_refs).  valid is the set of page ids for which validate_target_page
\* answers True.
MatchRef(ref, id_to_title, valid) ==
    Classify(ref, Candidates(id_to_title, Norm(ref.link_text)), valid)

MatchLinks(link_refs, id_to_title, valid) ==
    [i \in 1..Len(link_refs) |-> MatchRef(link_refs[i], id_to_title, valid)]

\* len(page_matched), len(page_ambig), ...
CountClass(matches, cls) == Cardinality({i \in 1..Len(matches) : matches[i].cls = cls})

\* The references of one of the classes whose normalized text is k.
RefsOfKey(matches, k, classes) ==
    {i \in 1..Len(matches) :
        matches[i].cls \in classes /\ Norm(matches[i].ref.link_text) = k}

\* link_lookup: normalized link text -> target id, or "" for None.  The
\* dictionary is filled from page_matched, then page_ambig, page_unmatched
\* and page_invalid_target, a later entry replacing an earlier one.
LinkLookup(matches) ==
    [k \in {Norm(matches[i].ref.link_text) : i \in 1..Len(matches)} |->
        IF RefsOfKey(matches, k, {"ambig", "unmatched", "invalid"}) # {} THEN ""
        ELSE matches[Max0(RefsOfKey(matches, k, {"matched"}))].target]

\* link_lookup.get(key)
LookupGet(link_lookup, key) ==
    IF key \in DOMAIN link_lookup THEN link_lookup[key] ELSE ""

\* ------------------------------------------------------------ rewriting
\* "[" link_text "](" url ")"
OriginalMd(link_text, url) == <<LB>> \o link_text \o <<RB, LP>> \o url \o <<RP>>

\* The unresolved marker: the marker sign, " unresolved: " and the link.
UnresolvedText(link_text, url) == <<STOP, SP, KW, SP>> \o OriginalMd(link_text, url)

\* merged["text"] = {"content": ..., "link": None}
Unlinked(e) == IF e.type = "text" THEN [e EXCEPT !.href = <<>>] ELSE e

\* One element taken up by _consolidate_adjacent_text: it joins the last
\* text element when that has equal annotations and the sum fits.  st is
\* [consolidated, i], i the position of the element in elements.
ConsolidateElement(st, e) ==
    IF e.type = "text" /\ JoinsLast(st.consolidated, e.content, e.ann)
    THEN [consolidated |->
            [st.consolidated EXCEPT ![Len(st.consolidated)].content = @ \o e.content],
          i |-> st.i + 1]
    ELSE [consolidated |-> Append(st.consolidated, Unlinked(e)), i |-> st.i + 1]

\* The loop over the elements st.i .. last, from the state st: up to the
\* middle of the range first, then on from the state that leaves.
RECURSIVE ConsolidateLoop(_, _, _)
ConsolidateLoop(elements, st, last) ==
    IF st.i > last THEN st
    ELSE IF st.i = last THEN ConsolidateElement(st, elements[st.i])
    ELSE ConsolidateLoop(elements, ConsolidateLoop(elements, st, (st.i + last) \div 2), last)

\* _consolidate_adjacent_text: a text element absorbs the text elements of
\* equal annotations that follow it while the sum stays within the limit.
ConsolidateAdjacentText(elements) ==
    ConsolidateLoop(elements, [consolidated |-> <<>>, i |-> 1], Len(elements)).consolidated

\* The key _convert_text_with_all_links looks a link text up with.
ConvertLookupKey(link_text) == Lower(link_text)

\* The element(s) that replace one link: a mention when the lookup has a
\* target, else the unresolved marker.
LinkOrMarker(match, target_page_id, annotations) ==
    IF target_page_id # ""
    THEN <<MakeInlineLink(target_page_id, annotations)>>
    ELSE SplitToElements(UnresolvedText(match.name, match.url), annotations)

\* _convert_text_with_all_links: the first link of the text becomes a
\* mention when the lookup has a target for it and the unresolved marker
\* otherwise; the text after it is converted the same way.
RECURSIVE ConvertTextWithAllLinks(_, _, _)
RECURSIVE ConvertMatch(_, _, _, _)
ConvertMatch(content, annotations, link_lookup, match) ==
    IF ~match.ok THEN SplitToElements(content, annotations)
    ELSE ConsolidateAdjacentText(
           (IF match.start > 1
            THEN SplitToElements(SubSeq(content, 1, match.start - 1), annotations)
            ELSE <<>>)
           \o LinkOrMarker(match, LookupGet(link_lookup, ConvertLookupKey(match.name)),
                           annotations)
           \o (IF match.end < Len(content)
               THEN ConvertTextWithAllLinks(SubSeq(content, match.end + 1, Len(content)),
                                            annotations, link_lookup)
               ELSE <<>>))

ConvertTextWithAllLinks(content, annotations, link_lookup) ==
    ConvertMatch(content, annotations, link_lookup, SearchLink(content, 1))

\* The key of refs_by_element a reference goes under.
ElementKey(ref) == <<ref.block_id, ref.rich_text_index>>

\* The keys of refs_by_element, (block_id, rich_text_index), in the order
\* in which the references first name them.
RECURSIVE ElementKeys(_, _)
ElementKeys(link_refs, seen) ==
    IF link_refs = <<>> THEN <<>>
    ELSE IF ElementKey(Head(link_refs)) \in seen THEN ElementKeys(Tail(link_refs), seen)
    ELSE <<ElementKey(Head(link_refs))>>
         \o ElementKeys(Tail(link_refs), seen \cup {ElementKey(Head(link_refs))})

\* refs_by_element[key]
ElementRefs(link_refs, key) == SelectSeq(link_refs, LAMBDA r : ElementKey(r) = key)

\* tracker.track_unmatched_link for every reference of the element.
TrackFailures(element_refs, reason) ==
    [i \in 1..Len(element_refs) |->
        [block_id |-> element_refs[i].block_id, link_text |-> element_refs[i].link_text,
         original_url |-> element_refs[i].original_url, reason |-> reason]]

\* any(r[0] == ref for r in page_ambig), ... for the class cls
RefInClass(matches, ref, cls) ==
    \E i \in 1..Len(matches) : matches[i].cls = cls /\ matches[i].ref = ref

\* status_row of a reference without a target
StatusRow(matches, ref) ==
    IF RefInClass(matches, ref, "ambig") THEN "Ambiguous"
    ELSE IF RefInClass(matches, ref, "invalid") THEN "Target Missing"
    ELSE "Unresolved"

RowsOf(failed, matches) ==
    [i \in 1..Len(failed) |->
        [block_id |-> failed[i].block_id, link_text |-> failed[i].link_text,
         original_url |-> failed[i].original_url, status |-> StatusRow(matches, failed[i])]]

\* The rows review.log_link writes for one element: one per reference whose
\* normalized text has no target in the lookup.
ReviewRows(element_refs, matches, link_lookup) ==
    RowsOf(SelectSeq(element_refs,
                     LAMBDA r : LookupGet(link_lookup, Norm(r.link_text)) = ""),
           matches)

\* rich_text[:rt_index] + new_elements + rich_text[rt_index+1:], then
\* _split_all_oversized_elements
Spliced(rich_text, rt_index, new_elements) ==
    SplitAllOversizedElements(
        SubSeq(rich_text, 1, rt_index - 1) \o new_elements
        \o SubSeq(rich_text, rt_index + 1, Len(rich_text)))

\* The rich_text process_page writes for the element rt_index of rich_text.
UpdatedRichText(rich_text, rt_index, link_lookup) ==
    Spliced(rich_text, rt_index,
            ConvertTextWithAllLinks(rich_text[rt_index].content, rich_text[rt_index].ann,
                                    link_lookup))

\* The parameters of ReviewTracker.log_link and the keywords process_page
\* calls it with.  A keyword that is no parameter makes the call raise a
\* TypeError before the body of log_link runs.
LOG_LINK_PARAMETERS ==
    {"link_text", "source_page_title", "source_page_id", "original_url", "status",
     "source_block_id", "target_page_id", "target_page_title"}
LogLinkKeywords ==
    {"link_text", "source_page_title", "source_page_id", "original_url", "status",
     "import_source", "source_block_id", "target_page_id", "target_page_title"}
LogLinkRaises == ~(LogLinkKeywords \subseteq LOG_LINK_PARAMETERS)

\* "Log review rows": the block has been updated.  The first call of
\* review.log_link, when it raises, ends the body in the handler of
\* "except Exception", which gives every reference of the element to the
\* tracker; else every row is logged.
LogReviewRows(st, element_refs, review_rows) ==
    IF review_rows = <<>> THEN st
    ELSE IF LogLinkRaises
    THEN [st EXCEPT !.tracked = @ \o TrackFailures(element_refs, "update failed")]
    ELSE [st EXCEPT !.rows = @ \o review_rows]

\* process_page from "Check array size" on, for one element.
WriteElement(st, block_id, element_refs, updated_rich_text, matches, link_lookup, review, fails) ==
    IF Len(updated_rich_text) > MAX_RICH_TEXT_ELEMS
    THEN [st EXCEPT !.tracked = @ \o TrackFailures(element_refs, "too large")]
    ELSE IF [op |-> "update", blk |-> block_id] \in fails
    THEN [st EXCEPT !.calls = Append(@, ApiCall("update", block_id, updated_rich_text)),
                    !.tracked = @ \o TrackFailures(element_refs, "update failed"),
                    !.raised = TRUE]
    ELSE LogReviewRows([st EXCEPT !.page[block_id].rich_text = updated_rich_text,
                                  !.calls = Append(@, ApiCall("update", block_id,
                                                              updated_rich_text)),
                                  !.blocks_updated = @ + 1],
                       element_refs,
                       IF review THEN ReviewRows(element_refs, matches, link_lookup)
                       ELSE <<>>)

\* process_page, the body of "Process each element" for one key: the block
\* is fetched again and the element now at rich_text_index is converted
\* and written back.
RewriteElement(st, block, rt_index, element_refs, matches, link_lookup, review, fails) ==
    IF [op |-> "fetch", blk |-> block.id] \in fails
    THEN [st EXCEPT !.tracked = @ \o TrackFailures(element_refs, "update failed"),
                    !.raised = TRUE]
    ELSE IF block.type = "table_row" THEN st
    ELSE IF block.rich_text = <<>> \/ rt_index > Len(block.rich_text) THEN st
    ELSE IF block.rich_text[rt_index].type # "text" THEN st
    ELSE WriteElement(st, block.id, element_refs,
                      UpdatedRichText(block.rich_text, rt_index, link_lookup),
                      matches, link_lookup, review, fails)

\* process_page, "Process each element".  st is [page, calls,
\* blocks_updated, tracked, rows, raised]; review is whether a ReviewTracker
\* exists; fails is the set of [op, blk] that raise.
RECURSIVE RewriteLoop(_, _, _, _, _, _, _)
RewriteLoop(keys, st, link_refs, matches, link_lookup, review, fails) ==
    IF keys = <<>> THEN st
    ELSE RewriteLoop(Tail(keys),
                     RewriteElement(st, st.page[Head(keys)[1]], Head(keys)[2],
                                    ElementRefs(link_refs, Head(keys)),
                                    matches, link_lookup, review, fails),
                     link_refs, matches, link_lookup, review, fails)

\* The two tests of "Regular block handling" that end the body for one key
\* with a bare continue: the index is past the rich_text of the block as
\* fetched again, or the element there is not a text element.
SkipsElement(block, rt_index) ==
    /\ block.type # "table_row"
    /\ \/ block.rich_text = <<>>
       \/ rt_index > Len(block.rich_text)
       \/ block.rich_text[rt_index].type # "text"

\* The references of the keys that "Process each element" leaves with that
\* continue when no call raises, in the order of the loop.
RECURSIVE SkippedLoop(_, _, _, _, _)
SkippedLoop(keys, st, link_refs, matches, link_lookup) ==
    IF keys = <<>> THEN <<>>
    ELSE (IF SkipsElement(st.page[Head(keys)[1]], Head(keys)[2])
          THEN ElementRefs(link_refs, Head(keys)) ELSE <<>>)
         \o SkippedLoop(Tail(keys),
                        RewriteElement(st, st.page[Head(keys)[1]], Head(keys)[2],
                                       ElementRefs(link_refs, Head(keys)),
                                       matches, link_lookup, TRUE, {}),
                        link_refs, matches, link_lookup)

\* status = "Ambiguous" if ... else "Resolved"
StatusOf(matched_count, ambiguous_count, unmatched_count) ==
    IF ambiguous_count # 0 /\ matched_count = 0 /\ unmatched_count = 0 THEN "Ambiguous"
    ELSE IF unmatched_count # 0 /\ matched_count = 0 /\ ambiguous_count = 0 THEN "Unresolved"
    ELSE IF ambiguous_count # 0 \/ unmatched_count # 0 THEN "Partial"
    ELSE "Resolved"

\* The status process_page records in completed.json for a page with links.
PageStatus(matches) ==
    StatusOf(CountClass(matches, "matched"), CountClass(matches, "ambig"),
             CountClass(matches, "unmatched"))


\* validate_target_page(wrapper, target_id, cache): the cached answer when
\* there is one, else whether the page exists and is neither archived nor
\* in the trash.
ValidateTargetPage(target_id, cache, gone_pages) ==
    IF target_id \in DOMAIN cache THEN cache[target_id] ELSE target_id \notin gone_pages

\* items[: (limit if limit else len(items))]; limit 0 stands for no limit.
Claim(items, limit) ==
    SubSeq(items, 1, IF limit # 0 /\ limit < Len(items) THEN limit ELSE Len(items))

\* ------------------------------------------------------------ bounds
NumWorkers == 2
Limit == 2
MaxFailures == 1
UrlLen == 12
MaxWords == 3

\* ------------------------------------------------------------ the registry
\* id_to_title, in the order of canonical.json.  "A b" is the title of d2
\* alone; "b" and "B" are two titles with one normalized form.
IdToTitle ==
    << [id |-> "d1", title |-> <<Ch("b")>>],
       [id |-> "d2", title |-> <<Ch("A"), SP, Ch("b")>>],
       [id |-> "d3", title |-> <<Ch("B")>>] >>

Docs == {IdToTitle[i].id : i \in 1..Len(IdToTitle)}
Workers == 1..NumWorkers

\* --single-page runs (--page, --page-id) are not modelled: queue mode.
single_page_mode == FALSE

\* ------------------------------------------------------------ state
VARIABLES
    pages,             \* destination content: page id -> its blocks
    gone,              \* page ids that are archived or in the trash
    dry_run,           \* args.dry_run
    unfinished,        \* unfinished.json: list of [id, title]
    completed,         \* completed.json: list of [id, title, status]
    todo,              \* pages_to_process not yet taken by a worker
    pc,                \* where each worker is in process_page
    job,               \* the page a worker processes: [id, title, status]
    cur_unf,           \* a worker's cur_unf
    cur_comp,          \* a worker's cur_comp
    page_stats,        \* page id -> the page_stats of its process_page call
    link_refs,         \* page id -> the link_refs of its process_page call
    page_matches,      \* page id -> page_matched, page_ambig, ... as one list
    validation_cache,  \* target id -> answer of validate_target_page
    calls,             \* update_block / append_blocks calls made, with page id
    rows,              \* rows logged by ReviewTracker.log_link
    tracked,           \* failures given to ExceptionTracker.track_unmatched_link
    raised,            \* page ids for which a content API call raised
    completions,       \* page ids whose queue update ran to its end
    crashed            \* the process was stopped

\* Step 1 of resolve_links_command: the registry and the queue files.
VARIABLES
    phase,             \* where resolve_links_command is in its step 1
    files,             \* which of canonical.json, unfinished.json, completed.json exist
    start_files,       \* the files that existed when the run started
    canonical,         \* canonical.json: list of [id, title]
    workspace,         \* what the search API lists: list of [id, title, parent]
    cursor,            \* how many objects the search has returned so far
    all_pages,         \* all_pages of list_all_accessible_pages_batched
    page_map,          \* page_map / id_to_title: list of [id, title]
    list_error,        \* the kind of error the search raised, "" for none
    dup_calls,         \* the arguments of the calls of track_duplicate_page_names
    sink_groups        \* the groups written to Exceptions -> DuplicatePageNames

\* The main thread of resolve_links_command in step 2.
VARIABLES
    futures,           \* page id -> the state of the future of its process_page
    stats,             \* LinkResolutionStats as aggregated from the results
    main_pc            \* where the main thread is

main_vars == <<futures, stats, main_pc>>

\* The queue files as files: the update of the queue at the end of
\* process_page, one step for each call that touches the directory.
VARIABLES
    inodes,            \* the files of the directory: [items, state, size] each
    dir,               \* file name -> index of its file in inodes, 0 for none
    fh,                \* thread -> index of the file its open handle f writes
    data,              \* thread -> the data argument of _write_json_atomic
    qpc,               \* thread -> [step, file]: where it is in the queue update
    qjob,              \* thread -> the page whose queue update it runs
    qtodo,             \* pages whose process_page has not reached the update
    queue_failed       \* pages for which "Queue update failed" was logged

file_vars == <<inodes, dir, fh, data, qpc, qjob, qtodo, queue_failed>>

\* The load of the batch at the start of step 2, for any --limit.
VARIABLES
    args_limit,        \* args.limit: [none, n], none when --limit is not given
    queue_file,        \* the list in unfinished.json
    page_map_to_scan,  \* page_map_to_scan: list of [id, title]
    load_pc            \* "start" before the load of the batch, then "loaded"

claim_vars == <<args_limit, queue_file, page_map_to_scan, load_pc>>

\* A ReviewTracker and the review databases under the Exceptions page.
VARIABLES
    recreate,          \* self.recreate
    db_id,             \* self._db_id, 0 for None
    databases,         \* id of a review database that exists -> its rows
    created,           \* the ids create_database gave this tracker, in order
    logged_rows        \* the rows log_link has written

review_vars == <<recreate, db_id, databases, created, logged_rows>>

\* The variables of the parts that run apart from the worker pool.
ext_vars == <<file_vars, claim_vars, review_vars>>

build_vars == <<phase, files, start_files, canonical, workspace, cursor, all_pages,
                page_map, list_error, dup_calls, sink_groups>>

worker_vars == <<pages, gone, pc, job, cur_unf, cur_comp, page_stats, link_refs,
                 page_matches, validation_cache, calls, rows, tracked, raised,
                 completions, crashed, stats>>

\* The variables of the worker pool, the build and the main thread.
run_vars ==
    <<pages, gone, dry_run, unfinished, completed, todo, pc, job, cur_unf, cur_comp,
      page_stats, link_refs, page_matches, validation_cache, calls, rows, tracked,
      raised, completions, crashed, build_vars, main_vars>>

\* What the steps of the queue files and of the load of the batch leave
\* as it is.
not_file_vars == <<run_vars, claim_vars, review_vars>>
not_claim_vars == <<run_vars, file_vars, review_vars>>
not_review_vars == <<run_vars, file_vars, claim_vars>>

vars == <<pages, gone, dry_run, unfinished, completed, todo, pc, job, cur_unf,
          cur_comp, page_stats, link_refs, page_matches, validation_cache, calls,
          rows, tracked, raised, completions, crashed, build_vars, main_vars,
          ext_vars>>

NoStats == [links_found |-> 0, links_matched |-> 0, links_unmatched |-> 0,
            links_ambiguous |-> 0, links_invalid_target |-> 0, blocks_updated |-> 0]
NoJob == [id |-> "", title |-> <<>>, status |-> ""]

\* unfinished_path, completed_path and the tmp_path of each.
FileNames == {"unfinished.json", "completed.json", "unfinished.json.tmp", "completed.json.tmp"}

\* No thread is in a queue update of the file level.
FilesIdle ==
    /\ inodes = <<>>
    /\ dir = [n \in FileNames |-> 0]
    /\ fh = [w \in Workers |-> 0]
    /\ data = [w \in Workers |-> <<>>]
    /\ qpc = [w \in Workers |-> [step |-> "idle", file |-> ""]]
    /\ qjob = [w \in Workers |-> NoJob]
    /\ qtodo = <<>>
    /\ queue_failed = {}

\* No batch is being loaded.
ClaimIdle ==
    /\ args_limit = [none |-> TRUE, n |-> 0]
    /\ queue_file = <<>>
    /\ page_map_to_scan = <<>>
    /\ load_pc = ""

\* No tracker is in use.
ReviewIdle ==
    /\ recreate = FALSE
    /\ db_id = 0
    /\ databases = <<>>
    /\ created = <<>>
    /\ logged_rows = {}

ExtIdle == FilesIdle /\ ClaimIdle /\ ReviewIdle

\* LinkResolutionStats() as constructed.
NoTotals == [total_pages_scanned |-> 0, pages_with_links |-> 0, total_links_found |-> 0,
             links_matched |-> 0, links_unmatched |-> 0]

\* futures: one future for every page of pages_to_process.
Submitted(items) == [d \in {items[i].id : i \in 1..Len(items)} |-> "submitted"]

\* unfinished.json as initialized from the registry.
Seed == [i \in 1..Len(IdToTitle) |-> [id |-> IdToTitle[i].id, title |-> IdToTitle[i].title]]

\* ------------------------------------------------------------ inputs
Para(id, rich_text) == Block(id, "paragraph", rich_text)
Plain(content) == MakeText(content, "plain")
Bold(content) == MakeText(content, "bold")
Link(name, u) == OriginalMd(name, <<Url(u, UrlLen)>>)
\* a text element whose hyperlink is an evernote url
HrefText(content, u) == [Plain(content) EXCEPT !.href = <<Url(u, UrlLen)>>]

NoLinkPage == <<Para(1, <<Plain(<<W(3), SP, W(2)>>)>>)>>
ResolvedPage == <<Para(1, <<Plain(Link(<<Ch("A"), SP, Ch("b")>>, "u1"))>>)>>
UnresolvedPage == <<Para(1, <<Plain(<<W(2), SP>> \o Link(<<W(1)>>, "u2"))>>)>>
AmbiguousPage == <<Para(1, <<Plain(Link(<<Ch("b")>>, "u3"))>>)>>
\* the title of d2 written with two spaces, with a no-break space, padded
SpacedPage == <<Para(1, <<Plain(Link(<<Ch("a"), SP, SP, Ch("b")>>, "u1"))>>)>>
NbspPage == <<Para(1, <<Plain(Link(<<Ch("A"), NB, Ch("b")>>, "u1"))>>)>>
PaddedPage == <<Para(1, <<Plain(Link(<<SP, Ch("a"), SP, Ch("B")>>, "u1"))>>)>>
\* two links in one element, text around them
MultiLinkPage ==
    <<Para(1, <<Plain(<<W(2), SP>> \o Link(<<Ch("A"), SP, Ch("b")>>, "u1")
                      \o <<SP, W(1), SP>> \o Link(<<W(1)>>, "u2"))>>)>>
\* links in two elements of one block
TwoSpanPage ==
    <<Para(1, <<Plain(Link(<<Ch("A"), SP, Ch("b")>>, "u1") \o <<SP, W(1)>>),
                Bold(Link(<<W(1)>>, "u2"))>>)>>
TwoSpanUnresolvedPage ==
    <<Para(1, <<Plain(Link(<<W(1)>>, "u2") \o <<SP, W(1)>>),
                Bold(Link(<<Ch("A"), SP, Ch("b")>>, "u1"))>>)>>
\* links in two blocks
TwoBlockPage ==
    <<Para(1, <<Plain(Link(<<Ch("A"), SP, Ch("b")>>, "u1"))>>),
      Para(2, <<Plain(Link(<<W(1)>>, "u2"))>>)>>
\* hyperlinked text (pass 2) with a title of the registry, and with none
HrefPage == <<Para(1, <<Plain(<<W(1), SP>>), HrefText(<<Ch("A"), SP, Ch("b")>>, "u1")>>)>>
HrefUnresolvedPage == <<Para(1, <<HrefText(<<W(1)>>, "u2")>>)>>
\* links in two elements of one block, the first after some text: its
\* rewrite puts a mention where the second element was
ShiftedSpanPage ==
    <<Para(1, <<Plain(<<W(1), SP>> \o Link(<<Ch("A"), SP, Ch("b")>>, "u1")),
                Bold(Link(<<Ch("A"), SP, Ch("b")>>, "u1"))>>)>>
\* UnresolvedPage as a run leaves it: the unresolved marker before the link
MarkedPage ==
    <<Para(1, <<Plain(<<W(2), SP>> \o UnresolvedText(<<W(1)>>, <<Url("u2", UrlLen)>>))>>)>>
\* a block as a run leaves it: plain text around a mention, no link left
MentionPage ==
    <<Para(1, <<Plain(<<W(1), SP>>), MakeInlineLink("d2", "plain"), Plain(<<SP, W(2)>>)>>)>>

\* A row of a table: a block of type table_row whose text is in its cells,
\* each cell a rich_text array.  The row stands where the traversal of the
\* _children of its table reaches it.
TableRow(id, cells) == [id |-> id, type |-> "table_row", rich_text |-> <<>>, cells |-> cells]
TableRowPage ==
    <<Para(1, <<Plain(<<W(2)>>)>>),
      TableRow(2, << <<Plain(<<W(1)>>)>>,
                     <<Plain(<<W(1), SP>> \o Link(<<Ch("A"), SP, Ch("b")>>, "u1"))>> >>)>>

PageInputs ==
    {NoLinkPage, ResolvedPage, UnresolvedPage, AmbiguousPage, SpacedPage, NbspPage,
     PaddedPage, MultiLinkPage, TwoSpanPage, TwoSpanUnresolvedPage, TwoBlockPage,
     HrefPage, HrefUnresolvedPage, TableRowPage, MentionPage, ShiftedSpanPage,
     MarkedPage}

\* Word lengths around the limit of one text element.
WordLens ==
    {1, MAX_RICH_TEXT_LENGTH - 1, MAX_RICH_TEXT_LENGTH, MAX_RICH_TEXT_LENGTH + 1,
     2 * MAX_RICH_TEXT_LENGTH + 1}

\* " ".join(words) for words of the given lengths
JoinWords(lens) ==
    [i \in 1..(2 * Len(lens) - 1) |-> IF i % 2 = 1 THEN W(lens[(i + 1) \div 2]) ELSE SP]

\* One word more than a block may hold elements, each just under the
\* limit of one element.
LongRun == JoinWords([i \in 1..(MAX_RICH_TEXT_ELEMS + 1) |-> MAX_RICH_TEXT_LENGTH - 1])

\* A link whose name alone is as long as one element may be: with its
\* brackets and its url the link token is longer than the limit.
LongLink == <<W(1), SP>> \o Link(<<W(MAX_RICH_TEXT_LENGTH)>>, "u2")

TextInputs ==
    {JoinWords(ls) : ls \in UNION {[1..n -> WordLens] : n \in 1..MaxWords}}
    \cup {LongRun, LongRun \o <<SP>> \o Link(<<W(1)>>, "u2"), LongLink}

TextPages == {<<Para(1, <<Plain(t)>>)>> : t \in TextInputs}

\* The state at the start of step 2 of resolve_links_command: the queue
\* files as seeded, the batch loaded from unfinished.json, no worker started.
InitPool(limit) ==
    /\ unfinished = Seed
    /\ completed = <<>>
    /\ todo = Claim(Seed, limit)
    /\ pc = [w \in Workers |-> "idle"]
    /\ job = [w \in Workers |-> NoJob]
    /\ cur_unf = [w \in Workers |-> <<>>]
    /\ cur_comp = [w \in Workers |-> <<>>]
    /\ page_stats = [d \in Docs |-> NoStats]
    /\ link_refs = [d \in Docs |-> <<>>]
    /\ page_matches = [d \in Docs |-> <<>>]
    /\ validation_cache = <<>>
    /\ calls = {}
    /\ rows = {}
    /\ tracked = {}
    /\ raised = {}
    /\ completions = {}
    /\ crashed = FALSE
    /\ futures = Submitted(Claim(Seed, limit))
    /\ stats = NoTotals
    /\ main_pc = "collecting"
    /\ phase = "dispatched"
    /\ files = {"canonical", "unfinished", "completed"}
    /\ start_files = {}
    /\ canonical = Seed
    /\ workspace = <<>>
    /\ cursor = 0
    /\ all_pages = Seed
    /\ page_map = Seed
    /\ list_error = ""
    /\ dup_calls = <<>>
    /\ sink_groups = <<>>

\* The same with no thread in a queue update of the file level.
InitRun(limit) == ExtIdle /\ InitPool(limit)

\* A run with a batch of Limit pages.
Init ==
    /\ InitRun(Limit)
    /\ dry_run = FALSE
    /\ gone \in {{}, {"d2"}}
    /\ \E p1 \in {NoLinkPage, ResolvedPage}, p2 \in {NoLinkPage, UnresolvedPage} :
         pages = [d \in Docs |-> IF d = "d1" THEN p1 ELSE IF d = "d2" THEN p2
                                 ELSE AmbiguousPage]

\* A run of one page (--limit 1) over the page inputs.
InitPage ==
    /\ InitRun(1)
    /\ dry_run = FALSE
    /\ gone \in {{}, {"d2"}}
    /\ \E p \in PageInputs : pages = [d \in Docs |-> IF d = "d1" THEN p ELSE NoLinkPage]

\* A run of one page (--limit 1) over the text inputs, with and without
\* --dry-run.
InitText ==
    /\ InitRun(1)
    /\ dry_run \in BOOLEAN
    /\ gone = {}
    /\ \E p \in TextPages : pages = [d \in Docs |-> IF d = "d1" THEN p ELSE NoLinkPage]

\* ------------------------------------------------------------ process_page
\* The calls that may raise while one page is processed: fetching the tree
\* of the page, appending to the page, fetching or updating one block.
FailPoints(page) ==
    {[op |-> "tree", blk |-> 0], [op |-> "append", blk |-> 0]}
    \cup {[op |-> o, blk |-> b] : o \in {"fetch", "update"}, b \in 1..Len(page)}

FailChoices(page) == {F \in SUBSET FailPoints(page) : Cardinality(F) <= MaxFailures}

\* The page ids validate_target_page answers True for.
ValidTargets == {t \in Docs : ValidateTargetPage(t, validation_cache, gone)}

\* What process_page has done when normalize_page_blocks returns.
AfterNormalize(norm) ==
    [page |-> norm.page, calls |-> norm.calls, blocks_updated |-> 0,
     tracked |-> <<>>, rows |-> <<>>, raised |-> norm.raised]

PageStats(refs, matches, blocks_updated) ==
    [links_found |-> Len(refs),
     links_matched |-> CountClass(matches, "matched"),
     links_unmatched |-> CountClass(matches, "unmatched"),
     links_ambiguous |-> CountClass(matches, "ambig"),
     links_invalid_target |-> CountClass(matches, "invalid"),
     blocks_updated |-> blocks_updated]

\* process_page at its queue update: what it has done (st), what it found
\* and the status it records.
Outcome(st, refs, matches, dry) ==
    [st |-> st, fetched |-> TRUE, link_refs |-> refs, matches |-> matches,
     stats |-> PageStats(refs, matches, st.blocks_updated),
     status |-> IF refs = <<>> THEN "No Links" ELSE PageStatus(matches),
     to_queue |-> ~dry /\ ~single_page_mode]

\* process_page from "Apply updates if not dry-run" on.
ApplyUpdates(norm, refs, matches, dry, fails) ==
    Outcome(IF refs = <<>> \/ dry THEN AfterNormalize(norm)
            ELSE RewriteLoop(ElementKeys(refs, {}), AfterNormalize(norm), refs, matches,
                             LinkLookup(matches), TRUE, fails),
            refs, matches, dry)

\* process_page from "Match links" on.
MatchAndApply(norm, refs, valid, dry, fails) ==
    ApplyUpdates(norm, refs, MatchLinks(refs, IdToTitle, valid), dry, fails)

\* process_page after normalize_page_blocks: wrapper.get_blocks raises, or
\* the blocks are scanned, matched and rewritten.
ScanAndApply(norm, valid, dry, fails) ==
    IF [op |-> "tree", blk |-> 0] \in fails
    THEN [st |-> AfterNormalize(norm), fetched |-> FALSE, link_refs |-> <<>>,
          matches |-> <<>>, stats |-> NoStats, status |-> "", to_queue |-> FALSE]
    ELSE MatchAndApply(norm, FindEvernoteLinksInPage(norm.page), valid, dry, fails)

\* process_page up to its queue update, as a function of the page, the
\* valid targets, args.dry_run and the calls that raise.
ProcessOutcome(page, valid, dry, fails) ==
    ScanAndApply(NormalizePageBlocks(page, fails), valid, dry, fails)

\* The targets validate_target_page was asked about.
Validated(matches) ==
    {matches[i].target : i \in {k \in 1..Len(matches) :
                                   matches[k].cls \in {"matched", "invalid"}}}

\* The calls and rows of one page as records of the logs.
Logged(d, cs) == {[doc |-> d] @@ cs[i] : i \in 1..Len(cs)}

\* ------------------------------------------------------------ actions
\* A pool thread takes the next submitted page.
Start(w) ==
    /\ ~crashed
    /\ pc[w] = "idle"
    /\ todo # <<>>
    /\ job' = [job EXCEPT ![w] = [id |-> Head(todo).id, title |-> Head(todo).title,
                                  status |-> ""]]
    /\ todo' = Tail(todo)
    /\ pc' = [pc EXCEPT ![w] = "process"]
    /\ UNCHANGED <<ext_vars, pages, gone, dry_run, unfinished, completed, cur_unf, cur_comp,
                   page_stats, link_refs, page_matches, validation_cache, calls, rows,
                   tracked, raised, completions, crashed, build_vars, main_vars>>

\* process_page without its outer "except Exception": the exception of
\* wrapper.get_blocks leaves it.
ProcessPageRaisesUncaught(out) == ~out.fetched

\* process_page ends in "except Exception as e: logger.error(...)" and
\* "return page_stats": no exception of its body leaves it.
ProcessPageRaises(out) == FALSE

\* The effect of process_page, up to its queue update, on the state.
Record(w, d, out, valid) ==
    /\ pages' = [pages EXCEPT ![d] = out.st.page]
    /\ calls' = calls \cup Logged(d, out.st.calls)
    /\ rows' = rows \cup Logged(d, out.st.rows)
    /\ tracked' = tracked \cup Logged(d, out.st.tracked)
    /\ raised' = IF out.st.raised THEN raised \cup {d} ELSE raised
    /\ page_stats' = [page_stats EXCEPT ![d] = out.stats]
    /\ link_refs' = [link_refs EXCEPT ![d] = out.link_refs]
    /\ page_matches' = [page_matches EXCEPT ![d] = out.matches]
    /\ validation_cache' =
         [t \in (DOMAIN validation_cache) \cup Validated(out.matches) |-> t \in valid]
    /\ job' = [job EXCEPT ![w].status = out.status]
    /\ pc' = [pc EXCEPT ![w] = IF out.to_queue THEN "read_unf" ELSE "idle"]
    /\ futures' = IF out.to_queue THEN futures
                  ELSE [futures EXCEPT ![d] = IF ProcessPageRaises(out) THEN "raised"
                                              ELSE "done"]

\* process_page up to its queue update: normalize, fetch, scan, match and,
\* unless dry-run, rewrite every element that holds a reference.
ProcessPage(w) ==
    /\ ~crashed
    /\ pc[w] = "process"
    /\ \E fails \in FailChoices(pages[job[w].id]) :
         Record(w, job[w].id,
                ProcessOutcome(pages[job[w].id], ValidTargets, dry_run, fails),
                ValidTargets)
    /\ UNCHANGED <<ext_vars, gone, dry_run, unfinished, completed, todo, cur_unf, cur_comp,
                   completions, crashed, build_vars, stats, main_pc>>

\* cur_unf = the entries of unfinished.json other than this page
ReadUnfinished(w) ==
    /\ ~crashed
    /\ pc[w] = "read_unf"
    /\ cur_unf' = [cur_unf EXCEPT ![w] = SelectSeq(unfinished, LAMBDA it : it.id # job[w].id)]
    /\ pc' = [pc EXCEPT ![w] = "write_unf"]
    /\ UNCHANGED <<ext_vars, pages, gone, dry_run, unfinished, completed, todo, job, cur_comp,
                   page_stats, link_refs, page_matches, validation_cache, calls, rows,
                   tracked, raised, completions, crashed, build_vars, main_vars>>

\* _write_json_atomic(unfinished_path, cur_unf)
WriteUnfinished(w) ==
    /\ ~crashed
    /\ pc[w] = "write_unf"
    /\ unfinished' = cur_unf[w]
    /\ pc' = [pc EXCEPT ![w] = "read_comp"]
    /\ UNCHANGED <<ext_vars, pages, gone, dry_run, completed, todo, job, cur_unf, cur_comp,
                   page_stats, link_refs, page_matches, validation_cache, calls, rows,
                   tracked, raised, completions, crashed, build_vars, main_vars>>

\* cur_comp = completed.json with this page appended
ReadCompleted(w) ==
    /\ ~crashed
    /\ pc[w] = "read_comp"
    /\ cur_comp' = [cur_comp EXCEPT ![w] = Append(completed, job[w])]
    /\ pc' = [pc EXCEPT ![w] = "write_comp"]
    /\ UNCHANGED <<ext_vars, pages, gone, dry_run, unfinished, completed, todo, job, cur_unf,
                   page_stats, link_refs, page_matches, validation_cache, calls, rows,
                   tracked, raised, completions, crashed, build_vars, main_vars>>

\* _write_json_atomic(completed_path, cur_comp); process_page returns
WriteCompleted(w) ==
    /\ ~crashed
    /\ pc[w] = "write_comp"
    /\ completed' = cur_comp[w]
    /\ completions' = completions \cup {job[w].id}
    /\ futures' = [futures EXCEPT ![job[w].id] = "done"]
    /\ pc' = [pc EXCEPT ![w] = "idle"]
    /\ UNCHANGED <<ext_vars, pages, gone, dry_run, unfinished, todo, job, cur_unf, cur_comp,
                   page_stats, link_refs, page_matches, validation_cache, calls, rows,
                   tracked, raised, crashed, build_vars, stats, main_pc>>

\* The process is stopped (interrupt, power loss): nothing runs afterwards
\* and the files stay as they are.
Crash ==
    /\ ~crashed
    /\ crashed' = TRUE
    /\ UNCHANGED <<ext_vars, pages, gone, dry_run, unfinished, completed, todo, pc, job, cur_unf,
                   cur_comp, page_stats, link_refs, page_matches, validation_cache,
                   calls, rows, tracked, raised, completions, build_vars, main_vars>>

\* The main thread takes a finished future: future.result() gives the
\* page_stats, or raises what process_page raised, and the totals are
\* added up.
AddResult(totals, page_result) ==
    [total_pages_scanned |-> totals.total_pages_scanned + 1,
     total_links_found |-> totals.total_links_found + page_result.links_found,
     links_matched |-> totals.links_matched + page_result.links_matched,
     links_unmatched |-> totals.links_unmatched + page_result.links_unmatched,
     pages_with_links |-> totals.pages_with_links
                          + (IF page_result.links_found > 0 THEN 1 ELSE 0)]

Collect(d) ==
    /\ ~crashed
    /\ main_pc = "collecting"
    /\ futures[d] \in {"done", "raised"}
    /\ IF futures[d] = "raised"
       THEN main_pc' = "aborted" /\ UNCHANGED <<ext_vars, futures, stats>>
       ELSE /\ futures' = [futures EXCEPT ![d] = "collected"]
            /\ stats' = AddResult(stats, page_stats[d])
            /\ UNCHANGED main_pc
    /\ UNCHANGED <<ext_vars, pages, gone, dry_run, unfinished, completed, todo, pc, job, cur_unf,
                   cur_comp, page_stats, link_refs, page_matches, validation_cache,
                   calls, rows, tracked, raised, completions, crashed, build_vars>>

\* Every future has been taken: the summary is printed.
Finish ==
    /\ ~crashed
    /\ main_pc = "collecting"
    /\ \A d \in DOMAIN futures : futures[d] = "collected"
    /\ main_pc' = "finished"
    /\ UNCHANGED <<ext_vars, pages, gone, dry_run, unfinished, completed, todo, pc, job, cur_unf,
                   cur_comp, page_stats, link_refs, page_matches, validation_cache,
                   calls, rows, tracked, raised, completions, crashed, build_vars,
                   futures, stats>>

Next ==
    \/ \E w \in Workers : Start(w)
    \/ \E w \in Workers : ProcessPage(w)
    \/ \E w \in Workers : ReadUnfinished(w)
    \/ \E w \in Workers : WriteUnfinished(w)
    \/ \E w \in Workers : ReadCompleted(w)
    \/ \E w \in Workers : WriteCompleted(w)
    \/ \E d \in DOMAIN futures : Collect(d)
    \/ Finish
    \/ Crash

Spec == Init /\ [][Next]_vars
SpecPage == InitPage /\ [][Next]_vars
SpecText == InitText /\ [][Next]_vars

\* A run that is not stopped: the pool threads and the main thread keep
\* running while they have something to do.
NextRun ==
    \/ \E w \in Workers : Start(w)
    \/ \E w \in Workers : ProcessPage(w)
    \/ \E w \in Workers : ReadUnfinished(w)
    \/ \E w \in Workers : WriteUnfinished(w)
    \/ \E w \in Workers : ReadCompleted(w)
    \/ \E w \in Workers : WriteCompleted(w)
    \/ \E d \in DOMAIN futures : Collect(d)
    \/ Finish

\* ENABLED <<NextRun>>_vars written out: a submitted page waits for a free
\* thread, a thread is inside process_page, or the main thread has a
\* finished future to take or its loop to leave.
CanRun ==
    /\ ~crashed
    /\ \/ todo # <<>> /\ \E w \in Workers : pc[w] = "idle"
       \/ \E w \in Workers : pc[w] # "idle"
       \/ /\ main_pc = "collecting"
          /\ \/ \E d \in DOMAIN futures : futures[d] \in {"done", "raised"}
             \/ \A d \in DOMAIN futures : futures[d] = "collected"

\* WF_vars(NextRun) with its ENABLED written out as CanRun: the run does
\* not stop while a thread has something to do.
RunFairness == []<>(~CanRun) \/ []<><<NextRun>>_vars

\* A run with a batch of Limit pages: a page with a link that resolves,
\* the other pages without a link.
InitBatch ==
    /\ InitRun(Limit)
    /\ dry_run = FALSE
    /\ gone = {}
    /\ pages = [d \in Docs |-> IF d = "d1" THEN ResolvedPage ELSE NoLinkPage]

SpecRun == InitBatch /\ [][NextRun]_vars /\ RunFairness


\* ------------------------------------------------------------ the registry build
\* Step 1 of resolve_links_command.  A registry is a list of [id, title] in
\* the order of the dict; titles are strings, "" for a page without title.
PageSize == 2

Entry(id, title) == [id |-> id, title |-> title]
MapIds(m) == {m[i].id : i \in 1..Len(m)}

\* m[e.id] = e.title on a dict: a known key keeps its place.
DictSet(m, e) ==
    IF e.id \in MapIds(m)
    THEN [i \in 1..Len(m) |-> IF m[i].id = e.id THEN Entry(e.id, e.title) ELSE m[i]]
    ELSE Append(m, Entry(e.id, e.title))

RECURSIVE DictUpdate(_, _)
DictUpdate(m, objs) ==
    IF objs = <<>> THEN m ELSE DictUpdate(DictSet(m, Head(objs)), Tail(objs))

\* for pid in ids: page_map.pop(pid, None)
DictRemove(m, ids) == SelectSeq(m, LAMBDA e : e.id \notin ids)

\* The objects of one response of the search: at most PageSize of them.
SearchResults(ws, cur) == SubSeq(ws, cur + 1, Min0({cur + PageSize, Len(ws)}))

MAINTENANCE_PAGE_TITLES ==
    {"Exceptions", "DuplicatePageNames", "EvernoteLinkFailure",
     "UnresolvableEvernoteLinks", "Page-Title mention conversion failures"}

\* The id of the first page titled "Exceptions", as a set: empty for none.
ExceptionsId(m) ==
    {m[i].id : i \in {k \in 1..Len(m) : /\ m[k].title = "Exceptions"
                                        /\ \A j \in 1..(k - 1) : m[j].title # "Exceptions"}}

\* The child pages of the Exceptions page that wrapper.get_blocks lists.
ExceptionsChildren(ws, exceptions_id) ==
    {ws[i].id : i \in {k \in 1..Len(ws) : ws[k].parent \in exceptions_id}}

\* all_pages without the Exceptions page and, unless get_blocks raised,
\* without its child pages.
WithoutExceptions(m, ws, blocks_raise) ==
    DictRemove(m, ExceptionsId(m)
                  \cup (IF blocks_raise THEN {} ELSE ExceptionsChildren(ws, ExceptionsId(m))))

\* title_to_ids[t]: the ids of the title in the order of the dict.
IdsOfTitle(m, t) ==
    [k \in 1..Cardinality({i \in 1..Len(m) : m[i].title = t}) |->
        m[KthOf({i \in 1..Len(m) : m[i].title = t}, k)].id]

\* A group of `duplicates`: its key (None for the blank titles) and its ids.
Group(title, is_none, ids) == [title |-> title, is_none |-> is_none, ids |-> ids]

\* The positions at which a title with more than one id occurs first.
DuplicateFirsts(m) ==
    {i \in 1..Len(m) : /\ m[i].title # ""
                       /\ \A j \in 1..(i - 1) : m[j].title # m[i].title
                       /\ \E j \in (i + 1)..Len(m) : m[j].title = m[i].title}

\* duplicates: the titles with more than one id, in the order of the dict,
\* then the blank titles under the key None.
Duplicates(m) ==
    [k \in 1..Cardinality(DuplicateFirsts(m)) |->
        Group(m[KthOf(DuplicateFirsts(m), k)].title, FALSE,
              IdsOfTitle(m, m[KthOf(DuplicateFirsts(m), k)].title))]
    \o (IF IdsOfTitle(m, "") # <<>> THEN <<Group("", TRUE, IdsOfTitle(m, ""))>> ELSE <<>>)

MaintenanceIds(m) ==
    {m[i].id : i \in {k \in 1..Len(m) : m[k].title \in MAINTENANCE_PAGE_TITLES}}

\* ids_to_remove
IdsToRemove(m) ==
    MaintenanceIds(m)
    \cup UNION {{Duplicates(m)[g].ids[k] : k \in 1..Len(Duplicates(m)[g].ids)} :
                g \in 1..Len(Duplicates(m))}

\* What track_duplicate_page_names writes for one group: the toggle with
\* the title and the candidate ids; no ids when the second append raised,
\* nothing when the first did.
GroupWritten(group, g, failing, kind) ==
    IF g # failing THEN <<[title |-> group.title, is_none |-> group.is_none, ids |-> group.ids]>>
    ELSE IF kind = "children" THEN <<[title |-> group.title, is_none |-> group.is_none, ids |-> <<>>]>>
    ELSE <<>>

TrackDuplicatePageNames(duplicates, failing, kind) ==
    Flatten([g \in 1..Len(duplicates) |-> GroupWritten(duplicates[g], g, failing, kind)])

\* (x[1] or "").lower() of the titles of the model, as a rank.
TitleRank(title) ==
    IF title = "" THEN 0
    ELSE IF title = "Alpha" THEN 1
    ELSE IF title = "Beta" THEN 2
    ELSE IF title = "DuplicatePageNames" THEN 3
    ELSE 4

\* sorted(page_map.items(), key=...): a stable sort.
SortsBefore(m, i, j) ==
    \/ TitleRank(m[i].title) < TitleRank(m[j].title)
    \/ (TitleRank(m[i].title) = TitleRank(m[j].title) /\ i < j)

SortedByTitle(m) ==
    [k \in 1..Len(m) |->
        m[CHOOSE i \in 1..Len(m) :
            Cardinality({j \in 1..Len(m) : SortsBefore(m, j, i)}) = k - 1]]

\* ------------------------------------------------------------ build inputs
Titles == {"Alpha", "Beta", ""}
Obj(id, title, parent) == [id |-> id, title |-> title, parent |-> parent]

\* The workspaces: three pages with every choice of titles, and one with an
\* Exceptions page, its child page and two pages of one title.
Workspaces ==
    {<<Obj("d1", t1, ""), Obj("d2", t2, ""), Obj("d3", t3, "")>> :
        t1 \in Titles, t2 \in Titles, t3 \in Titles}
    \cup {<<Obj("d1", "Alpha", ""), Obj("d2", "Exceptions", ""),
            Obj("d3", "DuplicatePageNames", "d2"), Obj("d4", "Alpha", "")>>}

\* The queue directory at the start of a run: empty; canonical.json alone,
\* as check_duplicates_command leaves it; the three files of an earlier
\* run, which left one page or none in unfinished.json.
PriorCanonical == <<Entry("d1", "Alpha"), Entry("d3", "Beta")>>
StartFiles == {{}, {"canonical"}, {"canonical", "unfinished", "completed"}}

\* completed.json of the earlier run: the pages of the registry that are
\* not left in unfinished.json.
PriorCompleted(left) ==
    [i \in 1..(Len(PriorCanonical) - Len(left)) |->
        [id |-> PriorCanonical[i].id, title |-> PriorCanonical[i].title,
         status |-> "No Links"]]

InitBuild ==
    /\ ExtIdle
    /\ phase = "start"
    /\ files \in StartFiles
    /\ start_files = files
    /\ canonical = IF "canonical" \in files THEN PriorCanonical ELSE <<>>
    /\ unfinished \in IF "unfinished" \in files THEN {<<Entry("d3", "Beta")>>, <<>>}
                      ELSE {<<>>}
    /\ completed = IF "completed" \in files THEN PriorCompleted(unfinished) ELSE <<>>
    /\ workspace \in Workspaces
    /\ "canonical" \in files => workspace = <<Obj("d1", "Alpha", ""), Obj("d2", "", ""), Obj("d3", "Beta", "")>>
    /\ dry_run \in BOOLEAN
    /\ cursor = 0
    /\ all_pages = <<>>
    /\ page_map = <<>>
    /\ list_error = ""
    /\ dup_calls = <<>>
    /\ sink_groups = <<>>
    /\ todo = <<>>
    /\ futures = <<>>
    /\ stats = NoTotals
    /\ main_pc = "step 1"
    /\ pages = [d \in Docs |-> NoLinkPage]
    /\ gone = {}
    /\ pc = [w \in Workers |-> "idle"]
    /\ job = [w \in Workers |-> NoJob]
    /\ cur_unf = [w \in Workers |-> <<>>]
    /\ cur_comp = [w \in Workers |-> <<>>]
    /\ page_stats = [d \in Docs |-> NoStats]
    /\ link_refs = [d \in Docs |-> <<>>]
    /\ page_matches = [d \in Docs |-> <<>>]
    /\ validation_cache = <<>>
    /\ calls = {}
    /\ rows = {}
    /\ tracked = {}
    /\ raised = {}
    /\ completions = {}
    /\ crashed = FALSE

\* ------------------------------------------------------------ build actions
\* canonical.json exists: it is loaded as the registry and the rest of
\* step 1 is skipped.
LoadCanonical ==
    /\ phase = "start"
    /\ "canonical" \in files
    /\ page_map' = canonical
    /\ phase' = "registry"
    /\ UNCHANGED <<ext_vars, files, start_files, canonical, workspace, cursor, all_pages,
                   list_error, dup_calls, sink_groups, unfinished, completed, todo,
                   dry_run, worker_vars, futures, main_pc>>

\* One turn of the loop of list_all_accessible_pages_batched: a response
\* of the search is added to all_pages.
SearchPage ==
    /\ \/ phase = "start" /\ "canonical" \notin files
       \/ phase = "listing"
    /\ all_pages' = DictUpdate(all_pages, SearchResults(workspace, cursor))
    /\ cursor' = cursor + Len(SearchResults(workspace, cursor))
    /\ phase' = IF cursor' < Len(workspace) THEN "listing" ELSE "listed"
    /\ UNCHANGED <<ext_vars, files, start_files, canonical, workspace, page_map, list_error,
                   dup_calls, sink_groups, unfinished, completed, todo, dry_run,
                   worker_vars, futures, main_pc>>

\* The search raises.  An APIResponseError ends the loop and all_pages is
\* returned as it is; any other exception leaves resolve_links_command.
SearchRaises(kind) ==
    /\ \/ phase = "start" /\ "canonical" \notin files
       \/ phase = "listing"
    /\ list_error' = kind
    /\ phase' = IF kind = "APIResponseError" THEN "listed" ELSE "aborted"
    /\ UNCHANGED <<ext_vars, files, start_files, canonical, workspace, cursor, all_pages,
                   page_map, dup_calls, sink_groups, unfinished, completed, todo,
                   dry_run, worker_vars, futures, main_pc>>

\* The Exceptions page and its children are removed and the registry is
\* saved to canonical.json.
ExcludeExceptions ==
    /\ phase = "listed"
    /\ \E blocks_raise \in BOOLEAN :
         page_map' = WithoutExceptions(all_pages, workspace, blocks_raise)
    /\ canonical' = page_map'
    /\ files' = files \cup {"canonical"}
    /\ phase' = "duplicates"
    /\ UNCHANGED <<ext_vars, start_files, workspace, cursor, all_pages, list_error, dup_calls,
                   sink_groups, unfinished, completed, todo, dry_run, worker_vars, futures, main_pc>>

\* "Handle duplicates, blank titles, and maintenance pages", with
\* duplicates: the groups are given to the tracker, then the ids are
\* removed.  When the tracker raises nothing is removed.
ReportAndRemove(duplicates, setup_raises, failing, kind) ==
    /\ dup_calls' = Append(dup_calls, duplicates)
    /\ sink_groups' = IF setup_raises THEN sink_groups
                      ELSE sink_groups \o TrackDuplicatePageNames(duplicates, failing, kind)
    /\ page_map' = IF setup_raises THEN page_map
                   ELSE DictRemove(page_map, IdsToRemove(page_map))

HandleDuplicates ==
    /\ phase = "duplicates"
    /\ IF Duplicates(page_map) # <<>>
       THEN \E setup_raises \in BOOLEAN, failing \in 0..Len(Duplicates(page_map)),
               kind \in {"parent", "children"} :
                ReportAndRemove(Duplicates(page_map), setup_raises, failing, kind)
       ELSE /\ page_map' = DictRemove(page_map, MaintenanceIds(page_map))
            /\ UNCHANGED <<ext_vars, dup_calls, sink_groups>>
    /\ phase' = "save"
    /\ UNCHANGED <<ext_vars, files, start_files, canonical, workspace, cursor, all_pages,
                   list_error, unfinished, completed, todo, dry_run, worker_vars, futures, main_pc>>

\* "Save canonical collection to canonical.json (alphabetized by title)"
SaveCanonical ==
    /\ phase = "save"
    /\ canonical' = SortedByTitle(page_map)
    /\ files' = files \cup {"canonical"}
    /\ phase' = "seed"
    /\ UNCHANGED <<ext_vars, start_files, workspace, cursor, all_pages, page_map, list_error,
                   dup_calls, sink_groups, unfinished, completed, todo, dry_run,
                   worker_vars, futures, main_pc>>

\* "Initialize unfinished.json from canonical if not present"
SeedUnfinished ==
    /\ phase = "seed"
    /\ unfinished' = IF "unfinished" \in files THEN unfinished ELSE page_map
    /\ files' = files \cup {"unfinished"}
    /\ phase' = "touch"
    /\ UNCHANGED <<ext_vars, start_files, canonical, workspace, cursor, all_pages, page_map,
                   list_error, dup_calls, sink_groups, completed, todo, dry_run,
                   worker_vars, futures, main_pc>>

\* "Touch completed.json if missing"
TouchCompleted ==
    /\ phase = "touch"
    /\ completed' = IF "completed" \in files THEN completed ELSE <<>>
    /\ files' = files \cup {"completed"}
    /\ phase' = "registry"
    /\ UNCHANGED <<ext_vars, start_files, canonical, workspace, cursor, all_pages, page_map,
                   list_error, dup_calls, sink_groups, unfinished, todo, dry_run,
                   worker_vars, futures, main_pc>>

\* page_map_to_scan: the batch of unfinished.json when the file exists and
\* holds entries, else every page of the registry.
PagesToScan ==
    IF "unfinished" \in files /\ unfinished # <<>> THEN Claim(unfinished, Limit)
    ELSE page_map

\* The pages are submitted to the pool.
Dispatch ==
    /\ phase = "registry"
    /\ todo' = PagesToScan
    /\ futures' = Submitted(PagesToScan)
    /\ main_pc' = "collecting"
    /\ phase' = "dispatched"
    /\ UNCHANGED <<ext_vars, files, start_files, canonical, workspace, cursor, all_pages,
                   page_map, list_error, dup_calls, sink_groups, unfinished, completed,
                   dry_run, worker_vars>>

NextBuild ==
    \/ LoadCanonical
    \/ SearchPage
    \/ \E kind \in {"APIResponseError", "Timeout"} : SearchRaises(kind)
    \/ ExcludeExceptions
    \/ HandleDuplicates
    \/ SaveCanonical
    \/ SeedUnfinished
    \/ TouchCompleted
    \/ Dispatch

SpecBuild == InitBuild /\ [][NextBuild]_vars

\* ------------------------------------------------------------ the queue files
\* The length of json.dump(items): the brackets and, for each entry, its
\* title and what every entry has (keys, id, punctuation).
RECURSIVE JsonSize(_)
JsonSize(items) ==
    IF items = <<>> THEN 2 ELSE 1 + StrLen(Head(items).title) + JsonSize(Tail(items))

\* A file that holds json.dump(items) and nothing else.
WholeFile(items) == [items |-> items, state |-> "whole", size |-> JsonSize(items)]

\* A file as open(..., "w") leaves it: no content.
EmptyFile == [items |-> <<>>, state |-> "empty", size |-> 0]

\* A file after json.dump(items) was written from its start by a handle
\* opened before: what the file held beyond the new text stays.
Overwritten(file, items) ==
    IF file.size > JsonSize(items)
    THEN [items |-> items, state |-> "torn", size |-> file.size]
    ELSE WholeFile(items)

\* _read_json_array(path): the list in the file, [] when json.load raises
ReadJsonArray(name) ==
    IF dir[name] # 0 /\ inodes[dir[name]].state = "whole" THEN inodes[dir[name]].items
    ELSE <<>>

\* path.with_suffix(path.suffix + ".tmp")
TmpPath(name) == IF name = "unfinished.json" THEN "unfinished.json.tmp" ELSE "completed.json.tmp"

\* The queue files of a seeded run, the pages of the batch about to reach
\* the queue update of their process_page.
InitFiles ==
    /\ InitPool(Limit)
    /\ ClaimIdle
    /\ ReviewIdle
    /\ dry_run = FALSE
    /\ gone = {}
    /\ pages = [d \in Docs |-> NoLinkPage]
    /\ inodes = <<WholeFile(Seed), WholeFile(<<>>)>>
    /\ dir = [n \in FileNames |-> IF n = "unfinished.json" THEN 1
                                  ELSE IF n = "completed.json" THEN 2 ELSE 0]
    /\ fh = [w \in Workers |-> 0]
    /\ data = [w \in Workers |-> <<>>]
    /\ qpc = [w \in Workers |-> [step |-> "idle", file |-> ""]]
    /\ qjob = [w \in Workers |-> NoJob]
    /\ qtodo = Claim(Seed, Limit)
    /\ queue_failed = {}

\* A pool thread reaches "Update queue atomically" for its page.
QueueUpdate(w) ==
    /\ qpc[w].step = "idle"
    /\ qtodo # <<>>
    /\ qjob' = [qjob EXCEPT ![w] = [id |-> Head(qtodo).id, title |-> Head(qtodo).title,
                                    status |-> "No Links"]]
    /\ qtodo' = Tail(qtodo)
    /\ qpc' = [qpc EXCEPT ![w] = [step |-> "read", file |-> "unfinished.json"]]
    /\ UNCHANGED <<not_file_vars, inodes, dir, fh, data, queue_failed>>

\* cur_unf = _read_json_array(unfinished_path) without the page, or
\* cur_comp = _read_json_array(completed_path) with the page appended
ReadQueueFile(w) ==
    /\ qpc[w].step = "read"
    /\ data' = [data EXCEPT ![w] =
                  IF qpc[w].file = "unfinished.json"
                  THEN SelectSeq(ReadJsonArray(qpc[w].file), LAMBDA it : it.id # qjob[w].id)
                  ELSE Append(ReadJsonArray(qpc[w].file), qjob[w])]
    /\ qpc' = [qpc EXCEPT ![w].step = "open"]
    /\ UNCHANGED <<not_file_vars, inodes, dir, fh, qjob, qtodo, queue_failed>>

\* _write_json_atomic: open(tmp_path, "w").  The file of that name is
\* emptied when there is one, also when another thread writes it or has
\* written it; else a new file gets the name.
OpenTmp(w) ==
    /\ qpc[w].step = "open"
    /\ IF dir[TmpPath(qpc[w].file)] # 0
       THEN /\ inodes' = [inodes EXCEPT ![dir[TmpPath(qpc[w].file)]] = EmptyFile]
            /\ fh' = [fh EXCEPT ![w] = dir[TmpPath(qpc[w].file)]]
            /\ dir' = dir
       ELSE /\ inodes' = Append(inodes, EmptyFile)
            /\ fh' = [fh EXCEPT ![w] = Len(inodes) + 1]
            /\ dir' = [dir EXCEPT ![TmpPath(qpc[w].file)] = Len(inodes) + 1]
    /\ qpc' = [qpc EXCEPT ![w].step = "dump"]
    /\ UNCHANGED <<not_file_vars, data, qjob, qtodo, queue_failed>>

\* _write_json_atomic: json.dump(data, f) and the end of the with block.
\* The text goes to the file of the handle, whatever its name is by now.
DumpTmp(w) ==
    /\ qpc[w].step = "dump"
    /\ inodes' = [inodes EXCEPT ![fh[w]] = Overwritten(inodes[fh[w]], data[w])]
    /\ fh' = [fh EXCEPT ![w] = 0]
    /\ qpc' = [qpc EXCEPT ![w].step = "replace"]
    /\ UNCHANGED <<not_file_vars, dir, data, qjob, qtodo, queue_failed>>

\* _write_json_atomic: os.replace(tmp_path, path).  It raises
\* FileNotFoundError when no file has the name tmp_path; process_page logs
\* "Queue update failed" and returns.
ReplaceTmp(w) ==
    /\ qpc[w].step = "replace"
    /\ IF dir[TmpPath(qpc[w].file)] = 0
       THEN /\ queue_failed' = queue_failed \cup {qjob[w].id}
            /\ qpc' = [qpc EXCEPT ![w] = [step |-> "idle", file |-> ""]]
            /\ dir' = dir
       ELSE /\ dir' = [dir EXCEPT ![qpc[w].file] = dir[TmpPath(qpc[w].file)],
                                  ![TmpPath(qpc[w].file)] = 0]
            /\ qpc' = [qpc EXCEPT ![w] = IF qpc[w].file = "unfinished.json"
                                         THEN [step |-> "read", file |-> "completed.json"]
                                         ELSE [step |-> "idle", file |-> ""]]
            /\ queue_failed' = queue_failed
    /\ UNCHANGED <<not_file_vars, inodes, fh, data, qjob, qtodo>>

NextFiles ==
    \/ \E w \in Workers : QueueUpdate(w)
    \/ \E w \in Workers : ReadQueueFile(w)
    \/ \E w \in Workers : OpenTmp(w)
    \/ \E w \in Workers : DumpTmp(w)
    \/ \E w \in Workers : ReplaceTmp(w)

SpecFiles == InitFiles /\ [][NextFiles]_vars

\* ------------------------------------------------------------ the batch
MaxLimit == 4

\* The lists unfinished.json may hold: entries of the registry, each at
\* most once, in any order, at least one.
RECURSIVE Arrangements(_)
Arrangements(ids) ==
    {<<>>} \cup UNION {{<<Seed[i]>> \o rest : rest \in Arrangements(ids \ {i})} : i \in ids}

QueueFiles == Arrangements(1..Len(Seed)) \ {<<>>}

\* items[: (limit if limit else len(items))]
BatchOf(items, limit) == Claim(items, IF limit.none THEN 0 ELSE limit.n)

InitClaim ==
    /\ InitPool(Limit)
    /\ FilesIdle
    /\ ReviewIdle
    /\ dry_run = FALSE
    /\ gone = {}
    /\ pages = [d \in Docs |-> NoLinkPage]
    /\ args_limit \in {[none |-> TRUE, n |-> 0]} \cup {[none |-> FALSE, n |-> k] : k \in 0..MaxLimit}
    /\ queue_file \in QueueFiles
    /\ page_map_to_scan = Seed
    /\ load_pc = "start"

\* "Load batch from unfinished.json if present": the file exists and
\* holds a list with entries.
LoadBatch ==
    /\ load_pc = "start"
    /\ queue_file # <<>>
    /\ page_map_to_scan' = BatchOf(queue_file, args_limit)
    /\ load_pc' = "loaded"
    /\ UNCHANGED <<not_claim_vars, args_limit, queue_file>>

NextClaim == LoadBatch

SpecClaim == InitClaim /\ [][NextClaim]_vars

\* ------------------------------------------------------------ properties
\* The ids of the entries of a queue file.
Ids(items) == {items[i].id : i \in 1..Len(items)}

\* How many entries of a queue file have the id d.
CountId(items, d) == Cardinality({i \in 1..Len(items) : items[i].id = d})

\* No worker is between the first read and the last write of a queue update.
QueueIdle == \A w \in Workers : pc[w] \in {"idle", "process"}

\* t occurs in s as a run of consecutive atoms.
Contains(s, t) == \E i \in 1..(Len(s) - Len(t) + 1) : SubSeq(s, i, i + Len(t) - 1) = t

\* The text holds a markdown link that does not stand in an unresolved marker.
HasBareLink(content) ==
    \E i \in 1..Len(content) :
        /\ LinkAt(content, i).ok
        /\ ~(i > 4 /\ SubSeq(content, i - 4, i - 1) = <<STOP, SP, KW, SP>>)

\* The pages whose rewriting ran without a raised call and without an
\* element given up as too large.
Rewritten ==
    {d \in Docs : /\ ~dry_run
                  /\ link_refs[d] # <<>>
                  /\ d \notin raised
                  /\ \A t \in tracked : t.doc # d}

\* C1: no id is in both unfinished.json and completed.json at any time, and
\* whenever no worker is inside a queue update every seeded id is in one of
\* the two files: no interleaving of the workers loses or duplicates an id.
C1_NoIdLostOrInBoth ==
    /\ Ids(unfinished) \cap Ids(completed) = {}
    /\ QueueIdle => Ids(Seed) \subseteq (Ids(unfinished) \cup Ids(completed))

\* C2: once the workers that completed their pages are out of the queue
\* update, completed.json has every completed page exactly once and
\* unfinished.json has none of them.
C2_CompletedExactlyOnce ==
    QueueIdle =>
        \A d \in completions : CountId(completed, d) = 1 /\ d \notin Ids(unfinished)

\* C3: when the process is stopped, at whatever point of a queue update,
\* every seeded id is in exactly one of unfinished.json and completed.json.
C3_StoppedRunKeepsEveryId ==
    crashed =>
        \A d \in Ids(Seed) : (d \in Ids(unfinished)) # (d \in Ids(completed))

\* C4: a page is recorded as "Resolved" only if it has at least one
\* reference and every one of its references matched cleanly.
C4_ResolvedOnlyIfAllMatched ==
    \A i \in 1..Len(completed) :
        completed[i].status = "Resolved" =>
            /\ page_stats[completed[i].id].links_found >= 1
            /\ page_stats[completed[i].id].links_matched
                 = page_stats[completed[i].id].links_found

\* C5: every markdown reference the matcher resolved stands, after the
\* rewrite of its page, as a mention of its target in its block, and the
\* block holds no unresolved marker for it.
C5_ResolvedBecomesMention ==
    \A d \in Rewritten : \A i \in 1..Len(page_matches[d]) :
        (page_matches[d][i].cls = "matched" /\ page_matches[d][i].ref.pass_type = "markdown")
        => /\ \E e \in 1..Len(pages[d][page_matches[d][i].ref.block_id].rich_text) :
                /\ pages[d][page_matches[d][i].ref.block_id].rich_text[e].type = "mention"
                /\ pages[d][page_matches[d][i].ref.block_id].rich_text[e].page
                     = page_matches[d][i].target
           /\ \A e \in 1..Len(pages[d][page_matches[d][i].ref.block_id].rich_text) :
                ~Contains(pages[d][page_matches[d][i].ref.block_id].rich_text[e].content,
                          UnresolvedText(page_matches[d][i].ref.link_text,
                                         page_matches[d][i].ref.original_url))

\* C6: after the rewrite of a page no text element of the page holds a
\* markdown link outside an unresolved marker: every scanned link was
\* replaced, also when an earlier rewrite changed the number of elements
\* of its block.
C6_NoScannedLinkLeft ==
    \A d \in Rewritten : \A b \in 1..Len(pages[d]) :
        \A e \in 1..Len(pages[d][b].rich_text) :
            pages[d][b].rich_text[e].type = "text"
            => ~HasBareLink(pages[d][b].rich_text[e].content)

\* C7: after the rewrite of a page the block of every hyperlink (pass 2)
\* reference holds a mention or an unresolved marker.
C7_HrefBecomesMentionOrMarker ==
    \A d \in Rewritten : \A i \in 1..Len(page_matches[d]) :
        page_matches[d][i].ref.pass_type = "href"
        => \E e \in 1..Len(pages[d][page_matches[d][i].ref.block_id].rich_text) :
             \/ pages[d][page_matches[d][i].ref.block_id].rich_text[e].type = "mention"
             \/ Contains(pages[d][page_matches[d][i].ref.block_id].rich_text[e].content,
                         <<STOP, SP, KW, SP>>)

\* C8: a page for which a content call raised stays in unfinished.json and
\* is not appended to completed.json.
C8_FailedPageStaysUnfinished ==
    \A d \in raised : d \in Ids(unfinished) /\ d \notin Ids(completed)

\* C9: every text element of every update or append call is at most
\* MAX_RICH_TEXT_LENGTH characters long.
C9_EveryElementWithinLimit ==
    \A c \in calls : \A e \in 1..Len(c.rich_text) :
        c.rich_text[e].type = "text"
        => StrLen(c.rich_text[e].content) <= MAX_RICH_TEXT_LENGTH

\* C10: the rich_text of every update or append call has at most
\* MAX_RICH_TEXT_ELEMS elements.
C10_EveryArrayWithinLimit ==
    \A c \in calls : Len(c.rich_text) <= MAX_RICH_TEXT_ELEMS

\* The last position of the run of ordinary characters that starts at i.
RunLast(s, i) == Min0({j \in i..Len(s) : j = Len(s) \/ s[j + 1].t # "w"})

\* s with the atoms at the positions firsts, each run of ordinary
\* characters written as one atom.
RunsAt(s, firsts) ==
    [k \in 1..Cardinality(firsts) |->
        IF s[KthOf(firsts, k)].t = "w"
        THEN W(StrLen(SubSeq(s, KthOf(firsts, k), RunLast(s, KthOf(firsts, k)))))
        ELSE s[KthOf(firsts, k)]]

\* The string a sequence of atoms stands for, in one form: empty runs
\* left out, adjacent runs of ordinary characters written as one run.
Canon(s) ==
    RunsAt(SelectSeq(s, LAMBDA a : a.n > 0),
           {i \in 1..Len(SelectSeq(s, LAMBDA a : a.n > 0)) :
               ~(/\ SelectSeq(s, LAMBDA a : a.n > 0)[i].t = "w"
                 /\ i > 1
                 /\ SelectSeq(s, LAMBDA a : a.n > 0)[i - 1].t = "w")})

\* The text of a rich_text array: the contents of its elements in order.
RichTextText(rich_text) == Flatten([e \in 1..Len(rich_text) |-> rich_text[e].content])

\* The text of a page: the text of its blocks in order.
PageText(page) == Flatten([b \in 1..Len(page) |-> RichTextText(page[b].rich_text)])

\* C11: processing a page that holds no link, with no call raising, leaves
\* the concatenated text of the page as it was: splitting and packing drop,
\* duplicate and reorder no character.
C11_TextPreserved ==
    [][\A d \in Docs :
          (/\ pages'[d] # pages[d]
           /\ raised' = raised
           /\ FindEvernoteLinksInPage(pages[d]) = <<>>)
          => Canon(PageText(pages'[d])) = Canon(PageText(pages[d]))]_vars

\* The link tokens of a block: the text of every markdown link of its text
\* elements.
LinkTokens(block) ==
    UNION {{SubSeq(block.rich_text[e].content,
                   FindLinks(block.rich_text[e].content)[k].start,
                   FindLinks(block.rich_text[e].content)[k].end) :
               k \in 1..Len(FindLinks(block.rich_text[e].content))} :
           e \in {x \in 1..Len(block.rich_text) : block.rich_text[x].type = "text"}}

\* C12: when a block is normalized and no call raises, every link token of
\* the block lies whole inside one element of one of the calls made, also
\* when the token alone is longer than an element may be.
C12_LinkTokenNeverCut ==
    [][\A d \in Docs : \A b \in 1..Len(pages[d]) :
          (/\ pages'[d] # pages[d]
           /\ raised' = raised
           /\ NeedsNormalization(pages[d][b]))
          => \A tok \in LinkTokens(pages[d][b]) :
                \E c \in calls' \ calls : \E x \in 1..Len(c.rich_text) :
                    Contains(c.rich_text[x].content, tok)]_vars

\* The registry build has gone through its handling of duplicates.
BuildCompleted ==
    /\ "canonical" \notin start_files
    /\ phase \in {"save", "seed", "touch", "registry", "dispatched"}

\* C13: once a fresh registry build has handled duplicates, the registry
\* holds no blank title and no title twice, and the duplicate and blank
\* groups were given to the tracker in at most one call that names no group
\* twice, whether or not the tracker could write them.
C13_RegistryCleanAfterBuild ==
    BuildCompleted =>
        /\ \A i \in 1..Len(page_map) : page_map[i].title # ""
        /\ \A i, j \in 1..Len(page_map) :
              page_map[i].title = page_map[j].title => i = j
        /\ Len(dup_calls) <= 1
        /\ \A c \in 1..Len(dup_calls) : \A g, h \in 1..Len(dup_calls[c]) :
              (/\ dup_calls[c][g].title = dup_calls[c][h].title
               /\ dup_calls[c][g].is_none = dup_calls[c][h].is_none) => g = h

\* C14: when the pages of a run that started without unfinished.json are
\* dispatched, unfinished.json holds one [id, title] entry for every id
\* of the registry, in the order of the registry, and completed.json is
\* an empty list, for a registry built fresh or loaded from canonical.json.
C14_QueueSeededBeforeDispatch ==
    (phase = "dispatched" /\ "unfinished" \notin start_files) =>
        /\ "unfinished" \in files
        /\ unfinished = [i \in 1..Len(page_map) |-> Entry(page_map[i].id, page_map[i].title)]
        /\ "completed" \in files
        /\ completed = <<>>

\* C15: in a dry run no step changes the content of a page, issues an
\* update or append call, or writes a review row or a tracked failure.
C15_DryRunWritesNothing ==
    [][dry_run => /\ pages' = pages
                  /\ calls' = calls
                  /\ rows' = rows
                  /\ tracked' = tracked]_vars

\* The legacy links of one text of a cell of a table row: the block, the
\* cell, the element and the name and url of each link.
CellTextLinks(block_id, c, e, content) ==
    {[block_id |-> block_id, cell |-> c, idx |-> e,
      link_text |-> FindLinks(content)[k].name,
      original_url |-> FindLinks(content)[k].url] : k \in 1..Len(FindLinks(content))}

TableRowBlockLinks(block) ==
    UNION {UNION {CellTextLinks(block.id, c, e, block.cells[c][e].content) :
                    e \in {x \in 1..Len(block.cells[c]) : block.cells[c][x].type = "text"}} :
           c \in 1..Len(block.cells)}

\* The legacy links in the cells of the table rows of a page.
TableRowLinks(page) ==
    UNION {TableRowBlockLinks(page[b]) : b \in {x \in 1..Len(page) : page[x].type = "table_row"}}

\* C16: when a page has been fetched and scanned, its references include
\* one for every legacy link in a text element of a cell of a table row.
C16_TableRowLinksScanned ==
    [][\A w \in Workers :
          (/\ pc[w] = "process"
           /\ pc'[w] # "process"
           /\ job[w].id \notin raised')
          => \A l \in TableRowLinks(pages[job[w].id]) :
                \E r \in 1..Len(link_refs'[job[w].id]) :
                    /\ link_refs'[job[w].id][r].block_id = l.block_id
                    /\ link_refs'[job[w].id][r].link_text = l.link_text
                    /\ link_refs'[job[w].id][r].original_url = l.original_url]_vars

\* C17: once the search of the listing has raised, no file of the queue
\* directory is written and no page is dispatched: the run has ended.
C17_ListingFailureAborts ==
    list_error # "" =>
        /\ files = start_files
        /\ todo = <<>>
        /\ phase \in {"aborted", "listed"}

\* C18: whatever calls of the content API raise while the pages are
\* processed, the run comes to its end with the result of every
\* dispatched page taken and total_pages_scanned equal to the number of
\* pages dispatched.
C18_RunEndsWithEveryResult ==
    <>(/\ main_pc = "finished"
       /\ \A d \in DOMAIN futures : futures[d] = "collected"
       /\ stats.total_pages_scanned = Cardinality(DOMAIN futures))

\* A run has ended in which a call raised for a dispatched page.
C18_EndedAfterFailure ==
    /\ main_pc = "finished"
    /\ raised \cap DOMAIN futures # {}
    /\ stats.total_pages_scanned = Cardinality(DOMAIN futures)

\* An element without a legacy link: a mention, or a text element with no
\* hyperlink and no evernote url in its content.
LinkFree(item) ==
    \/ item.type = "mention"
    \/ /\ item.type = "text"
       /\ item.href = <<>>
       /\ \A k \in 1..Len(item.content) : item.content[k].t # "url"

\* A rich_text array within the limits: no text element longer than
\* MAX_RICH_TEXT_LENGTH, at most SAFE_ELEMS_PER_BLOCK elements and at most
\* SAFE_CHAR_PER_BLOCK characters in all.
WithinLimits(rt) ==
    /\ \A e \in 1..Len(rt) : rt[e].type = "text" => StrLen(rt[e].content) <= MAX_RICH_TEXT_LENGTH
    /\ Len(rt) <= SAFE_ELEMS_PER_BLOCK
    /\ TotalChars(rt) <= SAFE_CHAR_PER_BLOCK

LinkFreeBlock(block) ==
    IF block.type = "table_row"
    THEN \A c \in 1..Len(block.cells) : \A e \in 1..Len(block.cells[c]) : LinkFree(block.cells[c][e])
    ELSE /\ \A e \in 1..Len(block.rich_text) : LinkFree(block.rich_text[e])
         /\ WithinLimits(block.rich_text)

LinkFreePage(page) == \A b \in 1..Len(page) : LinkFreeBlock(page[b])

SkippedRefs(page, refs, matches) ==
    SkippedLoop(ElementKeys(refs, {}),
                [page |-> NormalizePageBlocks(page, {}).page, calls |-> <<>>,
                 blocks_updated |-> 0, tracked |-> <<>>, rows |-> <<>>, raised |-> FALSE],
                refs, matches, LinkLookup(matches))

\* Every skipped reference is among the tracked failures of its page and
\* none of them is counted in links_matched.
SkippedAreFailures(d, skipped, matches, failures, links_matched) ==
    /\ \A i \in 1..Len(skipped) :
          \E t \in failures :
              /\ t.doc = d
              /\ t.block_id = skipped[i].block_id
              /\ t.link_text = skipped[i].link_text
    /\ links_matched + Len(SelectSeq(skipped, LAMBDA r : RefInClass(matches, r, "matched")))
          <= CountClass(matches, "matched")

\* C20: when process_page has rewritten a page and no call raised, every
\* reference whose index no longer addressed a text element of its block
\* has been given to the tracker as a failure, and links_matched does not
\* count it.
C20_SkippedReferenceReported ==
    [][\A w \in Workers :
          (/\ pc[w] = "process"
           /\ pc'[w] # "process"
           /\ ~dry_run
           /\ job[w].id \notin raised')
          => SkippedAreFailures(job[w].id,
                                SkippedRefs(pages[job[w].id], link_refs'[job[w].id],
                                            page_matches'[job[w].id]),
                                page_matches'[job[w].id], tracked',
                                page_stats'[job[w].id].links_matched)]_vars

\* The status the review database is to show for a class of the matcher.
ReviewStatus(cls) ==
    IF cls = "ambig" THEN "Ambiguous"
    ELSE IF cls = "invalid" THEN "Target Missing" ELSE "Unresolved"

\* C21: when a page of a run that is not a dry run has been processed to
\* the end of its queue update and no API call raised, every reference the
\* matcher classified ambiguous, unmatched or invalid has a row in the
\* review database with its page, block, link text, url and status.
C21_FailedLinkHasReviewRow ==
    \A d \in completions \ raised :
        ~dry_run =>
            \A i \in 1..Len(page_matches[d]) :
                page_matches[d][i].cls \in {"ambig", "unmatched", "invalid"}
                => \E r \in rows :
                      /\ r.doc = d
                      /\ r.block_id = page_matches[d][i].ref.block_id
                      /\ r.link_text = page_matches[d][i].ref.link_text
                      /\ r.original_url = page_matches[d][i].ref.original_url
                      /\ r.status = ReviewStatus(page_matches[d][i].cls)

\* C22: at every instant each of unfinished.json and completed.json holds
\* one whole list, as one call of _write_json_atomic wrote it, and no
\* queue update has failed at os.replace.
C22_QueueFilesWhole ==
    /\ \A n \in {"unfinished.json", "completed.json"} :
          dir[n] # 0 => inodes[dir[n]].state = "whole"
    /\ queue_failed = {}

\* C23: the load of the batch takes the first min(N, n) entries of
\* unfinished.json for --limit N, all n entries without --limit, in the
\* order of the file, and leaves the file as it is.
C23_ClaimTakesFirstN ==
    [][load_pc' = "loaded"
       => /\ page_map_to_scan'
               = SubSeq(queue_file, 1,
                        IF args_limit.none \/ args_limit.n > Len(queue_file)
                        THEN Len(queue_file) ELSE args_limit.n)
          /\ queue_file' = queue_file]_vars

\* A display text or title with its case folded, its white space (spaces
\* and no-break spaces) collapsed to single spaces and trimmed: the atoms
\* at the positions kept, every white space kept written as a space.
IsWhite(a) == a.t \in {"sp", "nb"}

KeptPositions(s) ==
    {i \in 1..Len(s) :
        \/ ~IsWhite(s[i])
        \/ /\ i > 1
           /\ ~IsWhite(s[i - 1])
           /\ \E k \in (i + 1)..Len(s) : ~IsWhite(s[k])}

FoldedAt(s, kept) ==
    CaseFold([k \in 1..Cardinality(kept) |->
                 IF IsWhite(s[KthOf(kept, k)]) THEN SP ELSE s[KthOf(kept, k)]])

Folded(s) == FoldedAt(s, KeptPositions(s))

\* The entries of the registry whose title equals the display text in that
\* form.
EqualTitles(link_text) ==
    {k \in 1..Len(IdToTitle) : Folded(IdToTitle[k].title) = Folded(link_text)}

\* The class the count of equal titles gives a reference.
ClassOfCount(m, equal) ==
    IF equal = {} THEN m.cls = "unmatched"
    ELSE IF Cardinality(equal) > 1
    THEN /\ m.cls = "ambig"
         /\ {m.candidates[c].id : c \in 1..Len(m.candidates)} = {IdToTitle[k].id : k \in equal}
    ELSE /\ m.target = IdToTitle[KthOf(equal, 1)].id
         /\ m.cls = IF m.target \in gone THEN "invalid" ELSE "matched"

\* C24: every reference of a processed page is classified by the number of
\* registry titles equal to its display text after case folding, collapsing
\* of white space and trimming: none unmatched, several ambiguous with all
\* of them as candidates, one matched when the target is valid and invalid
\* when it is archived or in the trash.
C24_ClassifiedByEqualTitles ==
    \A d \in Docs : \A i \in 1..Len(page_matches[d]) :
        ClassOfCount(page_matches[d][i], EqualTitles(page_matches[d][i].ref.link_text))

\* A page with an ambiguous reference has been matched: two titles of the
\* registry equal its display text and both are its candidates.
C24_AmbiguousMatched ==
    \E d \in Docs : \E i \in 1..Len(page_matches[d]) :
        /\ page_matches[d][i].cls = "ambig"
        /\ Len(page_matches[d][i].candidates) = 2

\* C25: the pages a run dispatches are not in completed.json: a page an
\* earlier run recorded as completed is not processed again, and a run
\* that finds unfinished.json empty dispatches nothing.
C25_CompletedNeverDispatched ==
    [][(phase # "dispatched" /\ phase' = "dispatched")
       => \A i \in 1..Len(todo') : todo'[i].id \notin Ids(completed)]_vars

\* The block holds an unresolved marker in a text element.
HoldsMarker(block) ==
    \E e \in 1..Len(block.rich_text) :
        /\ block.rich_text[e].type = "text"
        /\ Contains(block.rich_text[e].content, <<STOP, SP, KW, SP>>)

\* C26: when process_page runs on a page without a raised call, every
\* block of the page that holds an unresolved marker is afterwards as it
\* was: the marker is not rewritten and gets no second marker.
C26_MarkedBlockUnchanged ==
    [][\A w \in Workers :
          (/\ pc[w] = "process"
           /\ pc'[w] # "process"
           /\ ~dry_run
           /\ job[w].id \notin raised')
          => \A b \in 1..Len(pages[job[w].id]) :
                HoldsMarker(pages[job[w].id][b])
                => pages'[job[w].id][b] = pages[job[w].id][b]]_vars

\* C27: when process_page has returned for a page without links and no
\* call raised, normalize_page_blocks has reached a fixpoint: no block of
\* the page needs normalization and a second normalize_page_blocks makes
\* no update or append call.
C27_NormalizationIsFixpoint ==
    \A d \in DOMAIN futures :
        (/\ futures[d] \in {"done", "collected"}
         /\ d \notin raised
         /\ link_refs[d] = <<>>)
        => /\ \A b \in 1..Len(pages[d]) : ~NeedsNormalization(pages[d][b])
           /\ NormalizePageBlocks(pages[d], {}).calls = <<>>

\* The characters of a text other than its spaces.
RECURSIVE WordChars(_)
WordChars(s) ==
    IF s = <<>> THEN 0
    ELSE IF Len(s) = 1 THEN (IF s[1].t = "sp" THEN 0 ELSE s[1].n)
    ELSE WordChars(SubSeq(s, 1, Len(s) \div 2))
         + WordChars(SubSeq(s, Len(s) \div 2 + 1, Len(s)))

\* The characters other than spaces that the text elements of a block, or of
\* the blocks b..Len(page) of a page, hold.
RECURSIVE HeldChars(_, _)
HeldChars(rt, i) ==
    IF i > Len(rt) THEN 0
    ELSE (IF rt[i].type = "text" THEN WordChars(rt[i].content) ELSE 0) + HeldChars(rt, i + 1)

RECURSIVE PageChars(_, _)
PageChars(page, b) ==
    IF b > Len(page) THEN 0
    ELSE HeldChars(page[b].rich_text, 1) + PageChars(page, b + 1)

\* C28: normalize_block_to_safe_chunks never loses text.  Whichever calls
\* fail while a page is processed in which the scan afterwards finds no
\* link to rewrite, the blocks of the page (the normalized blocks and the
\* siblings appended for them) hold at least the characters, spaces aside,
\* that they held before.
C28_NormalizeKeepsText ==
    [][\A d \in Docs :
          (pages'[d] # pages[d] /\ link_refs'[d] = <<>>)
          => PageChars(pages'[d], 1) >= PageChars(pages[d], 1)]_vars

\* A registry without blank titles, titles held twice and maintenance
\* pages: what the handling of duplicates is to leave.
Purged(m) ==
    /\ Duplicates(m) = <<>>
    /\ MaintenanceIds(m) = {}
    /\ \A i \in 1..Len(m) : m[i].title # ""

\* C29: at every point at which a fresh registry build may be interrupted,
\* canonical.json is absent or holds the purged registry.  Every state of a
\* run that started without canonical.json is such a point.
C29_CanonicalAbsentOrPurged ==
    "canonical" \notin start_files =>
        \/ "canonical" \notin files
        \/ Purged(canonical)

\* ------------------------------------------------------------ the review tracker
\* The calls of log_link one tracker gets.
MaxLogs == 3

\* The review databases that exist under the Exceptions page before the
\* tracker is made.
PriorDatabases == {1, 2}

\* The id create_database gives: one no database had before.
NewDbId(made) == Cardinality(PriorDatabases) + Len(made) + 1

\* What ensure_db leaves: [db_id, databases, created, raised].
DbState(id, dbs, made, create_raised) ==
    [db_id |-> id, databases |-> dbs, created |-> made, raised |-> create_raised]

\* "Create new database": create_database and self._db_id = db["id"]; an
\* exception of create_database leaves ensure_db.
CreateNewDatabase(id, dbs, made, create_raises) ==
    IF create_raises THEN DbState(id, dbs, made, TRUE)
    ELSE DbState(NewDbId(made), dbs @@ (NewDbId(made) :> {}), Append(made, NewDbId(made)),
                 FALSE)

\* "Delete ALL existing databases with this title if recreate requested":
\* every database the search lists is deleted unless its delete raises;
\* a search that raises deletes nothing.
AfterDelete(dbs, search_raises, delete_raises) ==
    IF search_raises THEN dbs
    ELSE [m \in DOMAIN dbs \cap delete_raises |-> dbs[m]]

\* ensure_db
EnsureDb(rec, id, dbs, made, search_raises, delete_raises, first, create_raises) ==
    IF id # 0 /\ ~rec THEN DbState(id, dbs, made, FALSE)
    ELSE IF rec
    THEN CreateNewDatabase(id, AfterDelete(dbs, search_raises, delete_raises), made,
                           create_raises)
    ELSE IF ~search_raises /\ first \in DOMAIN dbs
    THEN DbState(first, dbs, made, FALSE)
    ELSE CreateNewDatabase(id, dbs, made, create_raises)

\* The database the search lists first, 0 when it lists none.
FirstMatches(dbs) == IF DOMAIN dbs = {} THEN {0} ELSE DOMAIN dbs

\* A tracker as ReviewTracker(wrapper, root_id, recreate=is_full_run) makes
\* it, over the databases of earlier runs.
InitReview ==
    /\ InitPool(Limit)
    /\ FilesIdle
    /\ ClaimIdle
    /\ dry_run = FALSE
    /\ gone = {}
    /\ pages = [d \in Docs |-> NoLinkPage]
    /\ recreate \in BOOLEAN
    /\ db_id = 0
    /\ \E prior \in SUBSET PriorDatabases : databases = [m \in prior |-> {}]
    /\ created = <<>>
    /\ logged_rows = {}

\* review.ensure_db(), as the retry command calls it.
EnsureDbCall ==
    /\ Len(created) < MaxLogs
    /\ \E search_raises \in BOOLEAN, delete_raises \in SUBSET DOMAIN databases,
          first \in FirstMatches(databases), create_raises \in BOOLEAN :
         LET e == EnsureDb(recreate, db_id, databases, created, search_raises,
                           delete_raises, first, create_raises)
         IN /\ db_id' = e.db_id
            /\ databases' = e.databases
            /\ created' = e.created
    /\ UNCHANGED <<not_review_vars, recreate, logged_rows>>

\* The row of a call of log_link is written to the database ensure_db
\* gave, unless create_page raises.
WriteRow(e, row, page_raises) ==
    /\ db_id' = e.db_id
    /\ created' = e.created
    /\ IF e.raised \/ page_raises \/ e.db_id \notin DOMAIN e.databases
       THEN databases' = e.databases /\ UNCHANGED logged_rows
       ELSE /\ databases' = [e.databases EXCEPT ![e.db_id] = @ \cup {row}]
            /\ logged_rows' = logged_rows \cup {row}

\* log_link: ensure_db, then one row.
LogLink(status) ==
    /\ Cardinality(logged_rows) < MaxLogs
    /\ Len(created) < MaxLogs
    /\ \E search_raises \in BOOLEAN, delete_raises \in SUBSET DOMAIN databases,
          first \in FirstMatches(databases), create_raises \in BOOLEAN,
          page_raises \in BOOLEAN :
         WriteRow(EnsureDb(recreate, db_id, databases, created, search_raises,
                           delete_raises, first, create_raises),
                  [n |-> Cardinality(logged_rows) + 1, status |-> status], page_raises)
    /\ UNCHANGED <<not_review_vars, recreate>>

NextReview ==
    \/ EnsureDbCall
    \/ \E status \in {"Ambiguous", "Unresolved"} : LogLink(status)

SpecReview == InitReview /\ [][NextReview]_vars

\* C30: a tracker made with recreate=True deletes the existing review
\* databases and creates a new one at most once: after any calls of
\* log_link, every row logged so far is in the current review database.
C30_RecreateOncePerTracker ==
    recreate =>
        /\ Len(created) <= 1
        /\ \A row \in logged_rows :
              db_id \in DOMAIN databases /\ row \in databases[db_id]

====
